---------------------------- MODULE Spec2Model ----------------------------
(***************************************************************************)
(* A model of the Threads media extractor (src/main.go).                   *)
(*                                                                         *)
(* Strings are sequences of one-character strings, so that                 *)
(* strings.Contains, strings.ReplaceAll, the percent-decoding of url.Parse *)
(* and the anchoring of the post-path regular expression are computed      *)
(* character by character, as the Go code computes them.                   *)
(*                                                                         *)
(* Specifications:                                                         *)
(*   SpecNorm  normalizeURL applied to inputs assembled from sample        *)
(*             schemes, hosts, paths and tails;                            *)
(*   Spec      concurrent calls of extractMediaURL on the one shared       *)
(*             browser session, each followed by handleExtract's reply;    *)
(*   SpecMedia isValidVideoURL, isValidImageURL and scoreImageURL applied  *)
(*             to URLs assembled from sample hosts, directories, names     *)
(*             and suffixes;                                               *)
(*   SpecMeta  extractVideoMetadata applied to markup assembled from       *)
(*             sample fields;                                              *)
(*   SpecStrategies  extractFromDOMElements and extractFromSourceCode      *)
(*             applied to pages assembled from sample elements and script  *)
(*             fields;                                                     *)
(*   SpecDownload  handleDownload applied to sample requests.              *)
(***************************************************************************)
EXTENDS Integers, Sequences, FiniteSets, TLC

VARIABLES
  nParts,      \* normalizer: the input, as scheme, host, path and tail
  nOut,        \* normalizer: normalizeURL of the input
  nAgain,      \* normalizer: normalizeURL of the URL it returned
  nTwin,       \* normalizer: normalizeURL of the input with its host in lower case
  pc,          \* per call: where the call stands in handleExtract / extractMediaURL
  input,       \* per call: req.URL
  normalized,  \* per call: normalizedURL (empty until normalizeURL accepts)
  session,     \* the pages open in the shared browser, named by the call that opened them
  opened,      \* per call: pages the call has opened so far
  rendered,    \* per call: what the call's page renders
  ctx,         \* per call: the navigation context of main.go:183
  result,      \* per call: the named result `result`
  err,         \* per call: the named result `err`
  panicking,   \* per call: a panic is unwinding the call's deferred functions
  faultAt,     \* per call: the step whose panic the call last raised
  chain,       \* per call: the strategies run so far, with their arguments and results
  response,    \* per call: what handleExtract wrote to the client
  afterFault,  \* per call: the call entered after some call had returned from a panic
  mParts,      \* media predicates: the URL under test, as host, directory, name and suffix
  mVideo,      \* media predicates: <<isValidVideoURL of the URL>>, <<>> before it ran
  mImage,      \* media predicates: <<isValidImageURL of the URL>>, <<>> before it ran
  mScore,      \* media predicates: <<scoreImageURL of the URL>>, <<>> before it ran
  mTwinScore,  \* media predicates: <<scoreImageURL of the 640x640 twin>>, <<>> before it ran
  xParts,      \* metadata: which fields the markup holds, and in what form
  xOut,        \* metadata: <<extractVideoMetadata of the markup>>, <<>> before it ran
  xSolo,       \* metadata: <<extractVideoMetadata of the duration field alone>>, <<>> before it ran
  sParts,      \* strategies: the rendered page, as its elements and the shape of its script state
  sCall,       \* strategies: the strategy applied and its arguments, <<>> before it ran
  sOut,        \* strategies: <<what the strategy returned>>, <<>> before it ran
  dParts,      \* download: the request, as its method, the host and path of its url parameter, and its filename
  dOut         \* download: <<what handleDownload did>>, <<>> before it ran

normVars == <<nParts, nOut, nAgain, nTwin>>

callVars == <<pc, input, normalized, session, opened, rendered, ctx, result, err,
              panicking, faultAt, chain, response, afterFault>>

mediaVars == <<mParts, mVideo, mImage, mScore, mTwinScore>>

metaVars == <<xParts, xOut, xSolo>>

stratVars == <<sParts, sCall, sOut>>

downloadVars == <<dParts, dOut>>

probeVars == <<mediaVars, metaVars, stratVars, downloadVars>>

vars == <<normVars, callVars, probeVars>>

-----------------------------------------------------------------------------
(* Strings *)

LowerLetters == <<"a","b","c","d","e","f","g","h","i","j","k","l","m","n","o","p","q","r","s","t","u","v","w","x","y","z">>
UpperLetters == <<"A","B","C","D","E","F","G","H","I","J","K","L","M","N","O","P","Q","R","S","T","U","V","W","X","Y","Z">>
DigitChars == <<"0","1","2","3","4","5","6","7","8","9">>

Range(s) == {s[i] : i \in DOMAIN s}

Letters == Range(LowerLetters) \cup Range(UpperLetters)
Digits == Range(DigitChars)

(* strings.HasPrefix(s[i-1:], p): p occurs in s at position i *)
OccursAt(s, i, p) ==
  /\ i + Len(p) - 1 <= Len(s)
  /\ \A k \in 1..Len(p) : s[i + k - 1] = p[k]

(* strings.Contains(s, p) *)
Contains(s, p) == \E i \in 1..(Len(s) - Len(p) + 1) : OccursAt(s, i, p)

(* strings.Index(s, p), 1-based; 0 when p does not occur *)
IndexOf(s, p) ==
  IF Contains(s, p)
  THEN CHOOSE i \in 1..Len(s) : OccursAt(s, i, p) /\ \A j \in 1..(i - 1) : ~OccursAt(s, j, p)
  ELSE 0

(* strings.LastIndex(s, p), 1-based; 0 when p does not occur *)
LastIndexOf(s, p) ==
  IF Contains(s, p)
  THEN CHOOSE i \in 1..Len(s) : OccursAt(s, i, p) /\ \A j \in (i + 1)..Len(s) : ~OccursAt(s, j, p)
  ELSE 0

HasPrefix(s, p) == OccursAt(s, 1, p)

Drop(s, n) == SubSeq(s, n + 1, Len(s))
Take(s, n) == SubSeq(s, 1, n)

(* strings.ToLower on the ASCII letters *)
ToLowerChar(c) ==
  IF c \in Range(UpperLetters)
  THEN LowerLetters[CHOOSE i \in DOMAIN UpperLetters : UpperLetters[i] = c]
  ELSE c

ToLower(s) == [i \in DOMAIN s |-> ToLowerChar(s[i])]

-----------------------------------------------------------------------------
(* net/url.Parse, as normalizeURL uses it (main.go:120): the fragment is   *)
(* cut at the first '#', the scheme at the first ':', the query at the     *)
(* first '?', the authority runs from "//" to the next '/', the host is    *)
(* what follows the last '@' of the authority, and Path is the             *)
(* percent-DECODED rest.                                                   *)

HexDigits == Digits \cup {"a","b","c","d","e","f","A","B","C","D","E","F"}

HexValue(c) ==
  IF c \in Digits THEN (CHOOSE i \in DOMAIN DigitChars : DigitChars[i] = c) - 1
  ELSE 9 + (CHOOSE i \in 1..6 : LowerLetters[i] = ToLowerChar(c))

(* The byte a %XX escape denotes, for the bytes the sample inputs escape;  *)
(* any other byte is kept apart from every character the code tests for.   *)
ByteChar(n) ==
  CASE n = 32 -> " "
    [] n = 35 -> "#"
    [] n = 37 -> "%"
    [] n = 47 -> "/"
    [] n = 63 -> "?"
    [] n = 65 -> "A"
    [] OTHER -> "\\x"

(* url.unescape(s, encodePath): the validating pass *)
RECURSIVE EscapesValid(_)
EscapesValid(s) ==
  IF s = <<>> THEN TRUE
  ELSE IF s[1] = "%"
       THEN /\ Len(s) >= 3
            /\ s[2] \in HexDigits
            /\ s[3] \in HexDigits
            /\ EscapesValid(Drop(s, 3))
       ELSE EscapesValid(Drop(s, 1))

(* url.unescape(s, encodePath): the decoding pass *)
RECURSIVE Unescape(_)
Unescape(s) ==
  IF s = <<>> THEN <<>>
  ELSE IF s[1] = "%"
       THEN <<ByteChar(16 * HexValue(s[2]) + HexValue(s[3]))>> \o Unescape(Drop(s, 3))
       ELSE <<s[1]>> \o Unescape(Drop(s, 1))

(* url.getScheme: [scheme, rest, ok] *)
RECURSIVE SchemeScan(_, _)
SchemeScan(s, i) ==
  IF i > Len(s) THEN [scheme |-> <<>>, rest |-> s, ok |-> TRUE]
  ELSE IF s[i] \in Letters THEN SchemeScan(s, i + 1)
  ELSE IF s[i] \in Digits \cup {"+", "-", "."}
       THEN IF i = 1 THEN [scheme |-> <<>>, rest |-> s, ok |-> TRUE]
            ELSE SchemeScan(s, i + 1)
  ELSE IF s[i] = ":"
       THEN IF i = 1 THEN [scheme |-> <<>>, rest |-> <<>>, ok |-> FALSE]
            ELSE [scheme |-> Take(s, i - 1), rest |-> Drop(s, i), ok |-> TRUE]
  ELSE [scheme |-> <<>>, rest |-> s, ok |-> TRUE]

getScheme(s) == SchemeScan(s, 1)

(* url.parseHost: the characters a host name may hold unescaped *)
HostChars == Letters \cup Digits \cup {".", "-", "_", "~"}

ParseFailed == [ok |-> FALSE, host |-> <<>>, path |-> <<>>, query |-> <<>>]

ParseURL(raw) ==
  LET hash == IndexOf(raw, <<"#">>)
      u == IF hash = 0 THEN raw ELSE Take(raw, hash - 1)
      sch == getScheme(u)
      q == IndexOf(sch.rest, <<"?">>)
      rest0 == IF q = 0 THEN sch.rest ELSE Take(sch.rest, q - 1)
      query == IF q = 0 THEN <<>> ELSE Drop(sch.rest, q)
      rooted == HasPrefix(rest0, <<"/">>)
      hasAuth == HasPrefix(rest0, <<"/", "/">>)
                   /\ (sch.scheme # <<>> \/ ~HasPrefix(rest0, <<"/", "/", "/">>))
      afterSl == Drop(rest0, 2)
      slash == IndexOf(afterSl, <<"/">>)
      authority == IF slash = 0 THEN afterSl ELSE Take(afterSl, slash - 1)
      host == Drop(authority, LastIndexOf(authority, <<"@">>))
      rest == IF ~hasAuth THEN rest0
              ELSE IF slash = 0 THEN <<>> ELSE Drop(afterSl, slash - 1)
      firstSeg == IF IndexOf(rest0, <<"/">>) = 0 THEN rest0
                  ELSE Take(rest0, IndexOf(rest0, <<"/">>) - 1)
  IN  IF ~sch.ok THEN ParseFailed
      ELSE IF ~rooted /\ sch.scheme # <<>>
           THEN [ok |-> TRUE, host |-> <<>>, path |-> <<>>, query |-> query]
      ELSE IF ~rooted /\ Contains(firstSeg, <<":">>) THEN ParseFailed
      ELSE IF hasAuth /\ ~(Range(host) \subseteq HostChars) THEN ParseFailed
      ELSE IF ~EscapesValid(rest) THEN ParseFailed
      ELSE [ok |-> TRUE,
            host |-> IF hasAuth THEN host ELSE <<>>,
            path |-> Unescape(rest),
            query |-> query]

-----------------------------------------------------------------------------
(* normalizeURL (main.go:118-149) *)

ErrInvalidURL == "invalid URL format"
ErrUntrustedDomain == "URL must be from threads.com or threads.net"
ErrMalformedPostPath == "invalid Threads post URL format - must be a post (/@username/post/POST_ID)"

validDomains ==
  << <<"t","h","r","e","a","d","s",".","c","o","m">>,
     <<"w","w","w",".","t","h","r","e","a","d","s",".","c","o","m">>,
     <<"m",".","t","h","r","e","a","d","s",".","c","o","m">>,
     <<"t","h","r","e","a","d","s",".","n","e","t">>,
     <<"w","w","w",".","t","h","r","e","a","d","s",".","n","e","t">>,
     <<"m",".","t","h","r","e","a","d","s",".","n","e","t">> >>

(* the loop of main.go:128-133: strings.Contains on the host as parsed *)
isValidDomain(host) == \E i \in DOMAIN validDomains : Contains(host, validDomains[i])

(* \w of Go's regexp: [0-9A-Za-z_] *)
WordChars == Letters \cup Digits \cup {"_"}
HandleChars == WordChars \cup {".", "-"}
PostIdChars == WordChars \cup {"-"}

(* the last index of the run of characters of class that starts at i       *)
(* (i - 1 when the run is empty)                                           *)
RECURSIVE RunEnd(_, _, _)
RunEnd(s, i, class) ==
  IF i <= Len(s) /\ s[i] \in class THEN RunEnd(s, i + 1, class) ELSE i - 1

PostLiteral == <<"/","p","o","s","t","/">>

(* threadsPattern.MatchString(path), ^/@[\w.-]+/post/[\w-]+/? : anchored   *)
(* at the start only. The handle run cannot hold '/', so it ends where     *)
(* "/post/" must start; one id character then completes a match.           *)
threadsPatternMatch(path) ==
  LET h == RunEnd(path, 3, HandleChars)
  IN  /\ HasPrefix(path, <<"/", "@">>)
      /\ h >= 3
      /\ OccursAt(path, h + 1, PostLiteral)
      /\ h + 7 <= Len(path)
      /\ path[h + 7] \in PostIdChars

CanonicalPrefix == <<"h","t","t","p","s",":","/","/","w","w","w",".","t","h","r","e","a","d","s",".","n","e","t">>

NormErr(e) == [err |-> e, url |-> <<>>]

normalizeURL(inputURL) ==
  LET parsedURL == ParseURL(inputURL)
  IN  IF ~parsedURL.ok THEN NormErr(ErrInvalidURL)
      ELSE IF ~isValidDomain(parsedURL.host) THEN NormErr(ErrUntrustedDomain)
      ELSE IF ~threadsPatternMatch(parsedURL.path) THEN NormErr(ErrMalformedPostPath)
      ELSE [err |-> "", url |-> CanonicalPrefix \o parsedURL.path]

-----------------------------------------------------------------------------
(* Media-reference predicates (main.go:771-897) *)

ContainsAny(s, pats) == \E p \in pats : Contains(s, p)

S_mp4 == <<".","m","p","4">>
S_video == <<"v","i","d","e","o">>
S_cdninstagram == <<"c","d","n","i","n","s","t","a","g","r","a","m",".","c","o","m">>
S_fbcdn == <<"f","b","c","d","n",".","n","e","t">>
S_scontent == <<"s","c","o","n","t","e","n","t">>
S_threadsnet == <<"t","h","r","e","a","d","s",".","n","e","t">>

(* main.go:778-780 *)
videoExcludedSuffixes ==
  { <<".","j","p","g">>, <<".","j","p","e","g">>, <<".","p","n","g">>,
    <<".","w","e","b","p">>, <<".","g","i","f">> }

(* main.go:785-787 *)
videoExtensions ==
  { S_mp4, <<".","w","e","b","m">>, <<".","m","o","v">>, <<".","m","4","v">>,
    <<".","a","v","i">>, <<".","m","k","v">> }

(* main.go:793-798 *)
facebookVideoCDNs ==
  { <<"v","i","d","e","o",".","f","b","c","d","n",".","n","e","t">>,
    <<"s","c","o","n","t","e","n","t","-","v","i","d","e","o">>,
    <<"v","i","d","e","o",".","x","x",".","f","b","c","d","n",".","n","e","t">>,
    <<"v","i","d","e","o","-">> }

(* main.go:825 *)
videoKeywords ==
  { S_video, <<"p","l","a","y","a","b","l","e">>, <<"s","t","r","e","a","m">>,
    <<"m","e","d","i","a">>, S_mp4, <<".","w","e","b","m">>, <<".","m","o","v">> }

(* isValidVideoURL without the exclusion of main.go:778-782 *)
isValidVideoURLNoExclusions(url) ==
  IF url = <<>> THEN FALSE
  ELSE IF ContainsAny(url, videoExtensions) THEN TRUE
  ELSE IF ContainsAny(url, facebookVideoCDNs) THEN TRUE
  ELSE IF Contains(url, S_cdninstagram) THEN TRUE
  ELSE IF (Contains(url, S_fbcdn) \/ Contains(url, S_scontent))
            /\ (Contains(url, S_video) \/ Contains(url, S_mp4)) THEN TRUE
  ELSE IF (Contains(url, S_threadsnet) \/ Contains(url, S_fbcdn) \/ Contains(url, S_scontent))
            /\ ContainsAny(url, videoKeywords) THEN TRUE
  ELSE FALSE

isValidVideoURL(url) ==
  IF url = <<>> THEN FALSE
  ELSE IF ContainsAny(url, videoExcludedSuffixes) THEN FALSE
  ELSE IF ContainsAny(url, videoExtensions) THEN TRUE
  ELSE IF ContainsAny(url, facebookVideoCDNs) THEN TRUE
  ELSE IF Contains(url, S_cdninstagram) THEN TRUE
  ELSE IF (Contains(url, S_fbcdn) \/ Contains(url, S_scontent))
            /\ (Contains(url, S_video) \/ Contains(url, S_mp4)) THEN TRUE
  ELSE IF (Contains(url, S_threadsnet) \/ Contains(url, S_fbcdn) \/ Contains(url, S_scontent))
            /\ ContainsAny(url, videoKeywords) THEN TRUE
  ELSE FALSE

(* main.go:845-846 *)
imageExcludedTokens ==
  { S_mp4, <<".","w","e","b","m">>, <<".","m","o","v">>, S_video }

(* main.go:856-857 *)
imageExtensions ==
  { <<".","j","p","g">>, <<".","j","p","e","g">>, <<".","p","n","g">>, <<".","w","e","b","p">> }

(* main.go:864 *)
excludePatterns ==
  { <<"p","r","o","f","i","l","e">>, <<"a","v","a","t","a","r">>, <<"l","o","g","o">>,
    <<"i","c","o","n">>, <<"b","a","d","g","e">>, <<"b","u","t","t","o","n">>,
    <<"d","e","f","a","u","l","t">>, <<"s","a","f","e","_","i","m","a","g","e">> }

(* isValidImageURL without the exclusion list of main.go:864-869 *)
isValidImageURLNoExclusions(url) ==
  IF url = <<>> THEN FALSE
  ELSE IF ContainsAny(url, imageExcludedTokens) THEN FALSE
  ELSE IF ~Contains(url, S_cdninstagram) /\ ~Contains(url, S_fbcdn) /\ ~Contains(url, S_scontent)
       THEN FALSE
  ELSE IF ~ContainsAny(url, imageExtensions) THEN FALSE
  ELSE TRUE

isValidImageURL(url) ==
  IF url = <<>> THEN FALSE
  ELSE IF ContainsAny(url, imageExcludedTokens) THEN FALSE
  ELSE IF ~Contains(url, S_cdninstagram) /\ ~Contains(url, S_fbcdn) /\ ~Contains(url, S_scontent)
       THEN FALSE
  ELSE IF ~ContainsAny(url, imageExtensions) THEN FALSE
  ELSE IF ContainsAny(url, excludePatterns) THEN FALSE
  ELSE TRUE

BaseScore == 50

(* scoreImageURL with the bonuses of main.go:883-889 attached to the wrong *)
(* tokens: the smallest size earns the most                                *)
scoreImageURLReversed(url) ==
  IF ~isValidImageURL(url) THEN 0
  ELSE BaseScore
       + (IF Contains(url, <<"1","0","8","0","x","1","0","8","0">>) THEN 20
          ELSE IF Contains(url, <<"7","2","0","x","7","2","0">>) THEN 30
          ELSE IF Contains(url, <<"6","4","0","x","6","4","0">>) THEN 50
          ELSE 0)
       + (IF Contains(url, <<"f","u","l","l","_","r","e","s">>)
             \/ Contains(url, <<"o","r","i","g","i","n","a","l">>) THEN 25
          ELSE 0)

scoreImageURL(url) ==
  IF ~isValidImageURL(url) THEN 0
  ELSE BaseScore
       + (IF Contains(url, <<"1","0","8","0","x","1","0","8","0">>) THEN 50
          ELSE IF Contains(url, <<"7","2","0","x","7","2","0">>) THEN 30
          ELSE IF Contains(url, <<"6","4","0","x","6","4","0">>) THEN 20
          ELSE 0)
       + (IF Contains(url, <<"f","u","l","l","_","r","e","s">>)
             \/ Contains(url, <<"o","r","i","g","i","n","a","l">>) THEN 25
          ELSE 0)

-----------------------------------------------------------------------------
(* Text helpers of the strategies *)

(* strings.ReplaceAll(s, old, new), old not empty *)
RECURSIVE ReplaceAll(_, _, _)
ReplaceAll(s, old, new) ==
  IF s = <<>> THEN <<>>
  ELSE IF HasPrefix(s, old) THEN new \o ReplaceAll(Drop(s, Len(old)), old, new)
  ELSE <<s[1]>> \o ReplaceAll(Drop(s, 1), old, new)

(* the first replacement alone: the escaped solidus is left in place *)
unescapeURLAmpersandOnly(url) ==
  ReplaceAll(url, <<"\\","u","0","0","2","6">>, <<"&">>)

(* the two replacements of main.go:622-623 (and 663-664, 730-731, ...) *)
unescapeURL(url) ==
  ReplaceAll(ReplaceAll(url, <<"\\","u","0","0","2","6">>, <<"&">>), <<"\\","/">>, <<"/">>)

SpaceChars == {" ", "\t", "\n"}

(* strings.TrimSpace *)
RECURSIVE TrimLeft(_)
TrimLeft(s) == IF s # <<>> /\ s[1] \in SpaceChars THEN TrimLeft(Drop(s, 1)) ELSE s

RECURSIVE TrimRight(_)
TrimRight(s) == IF s # <<>> /\ s[Len(s)] \in SpaceChars THEN TrimRight(Take(s, Len(s) - 1)) ELSE s

TrimSpace(s) == TrimRight(TrimLeft(s))

(* strconv.ParseInt(digits, 10, 64) on a run of decimal digits *)
RECURSIVE ParseDigits(_)
ParseDigits(s) ==
  IF s = <<>> THEN 0
  ELSE 10 * ParseDigits(Take(s, Len(s) - 1)) + HexValue(s[Len(s)])

(* math.MaxInt64 in decimal *)
MaxInt64Text == <<"9","2","2","3","3","7","2","0","3","6","8","5","4","7","7","5","8","0","7">>

RECURSIVE StripZeros(_)
StripZeros(s) == IF Len(s) > 1 /\ s[1] = "0" THEN StripZeros(Drop(s, 1)) ELSE s

(* a <= b for two runs of digits of the same length *)
RECURSIVE DigitsLeq(_, _)
DigitsLeq(a, b) ==
  IF a = <<>> THEN TRUE
  ELSE IF a[1] = b[1] THEN DigitsLeq(Drop(a, 1), Drop(b, 1))
  ELSE HexValue(a[1]) < HexValue(b[1])

(* strconv.ParseInt(digits, 10, 64) returns no error: the value is in range *)
FitsInt64(s) ==
  LET d == StripZeros(s)
  IN  \/ Len(d) < Len(MaxInt64Text)
      \/ Len(d) = Len(MaxInt64Text) /\ DigitsLeq(d, MaxInt64Text)

(* fmt.Sprintf("%d", n), n >= 0 *)
RECURSIVE Itoa(_)
Itoa(n) == IF n < 10 THEN <<DigitChars[n + 1]>> ELSE Itoa(n \div 10) \o <<DigitChars[(n % 10) + 1]>>

RECURSIVE Flatten(_)
Flatten(ss) == IF ss = <<>> THEN <<>> ELSE ss[1] \o Flatten(Drop(ss, 1))

NonEmpty(ss) == SelectSeq(ss, LAMBDA x : x # <<>>)

-----------------------------------------------------------------------------
(* The rendered page, as the browser control plane shows it.               *)
(*   elements  the DOM elements in document order: tag, attrs (attribute   *)
(*             name -> value), the src of the nested <source> elements,    *)
(*             and the currentSrc property;                                *)
(*   title     the text of <title>;                                        *)
(*   script    the fields of the embedded script state in markup order:    *)
(*             key, whether white space follows the colon, whether the     *)
(*             value is quoted, and the value's text (holding no quote).   *)
(* The serialized markup page.HTML() holds the title, the elements'        *)
(* attributes and the script fields, in that order.                        *)

HasAttr(el, a) == a \in DOMAIN el.attrs

(* el.Attribute(a) followed by the code's "!= nil && != \"\"" test: an     *)
(* absent attribute and an empty one both read as the empty string         *)
Attribute(el, a) == IF HasAttr(el, a) THEN el.attrs[a] ELSE <<>>

MatchesSelector(el, selector) ==
  CASE selector = "video[src]" -> el.tag = "video" /\ HasAttr(el, "src")
    [] selector = "video" -> el.tag = "video"
    [] selector = "[data-testid*='video']" ->
         HasAttr(el, "data-testid") /\ Contains(el.attrs["data-testid"], S_video)
    [] selector = "video[autoplay]" -> el.tag = "video" /\ HasAttr(el, "autoplay")
    [] selector = "[data-video-url]" -> HasAttr(el, "data-video-url")
    [] selector = "img" -> el.tag = "img"
    [] OTHER -> FALSE

(* page.Elements(selector) *)
Elements(page, selector) ==
  SelectSeq(page.elements, LAMBDA el : MatchesSelector(el, selector))

AttrField(key, val) == [kind |-> "attr", key |-> key, ws |-> FALSE, quoted |-> TRUE, val |-> val]

ElementMarkup(el) ==
  (IF HasAttr(el, "data-video-url") THEN <<AttrField("data-video-url", el.attrs["data-video-url"])>> ELSE <<>>)
  \o (IF HasAttr(el, "data-src") THEN <<AttrField("data-src", el.attrs["data-src"])>> ELSE <<>>)

(* page.HTML() *)
HTML(page) ==
  (IF page.title # <<>>
   THEN <<[kind |-> "tag", key |-> "title", ws |-> FALSE, quoted |-> FALSE, val |-> page.title]>>
   ELSE <<>>)
  \o Flatten([i \in DOMAIN page.elements |-> ElementMarkup(page.elements[i])])
  \o page.script

-----------------------------------------------------------------------------
(* ExtractResponse (main.go:28-37); a nil *ExtractResponse is NoResult *)

NoMap == <<>>

NoResult ==
  [MediaURL |-> <<>>, MediaType |-> "", Success |-> FALSE, VideoID |-> <<>>,
   Title |-> <<>>, Duration |-> 0, VideoUrls |-> NoMap, Metadata |-> NoMap]

MediaResult(url, type) ==
  [MediaURL |-> url, MediaType |-> type, Success |-> TRUE, VideoID |-> <<>>,
   Title |-> <<>>, Duration |-> 0, VideoUrls |-> NoMap, Metadata |-> NoMap]

-----------------------------------------------------------------------------
(* extractFromDOMElements (main.go:449-566) *)

(* main.go:457-463 *)
videoSelectors ==
  <<"video[src]", "video", "[data-testid*='video']", "video[autoplay]", "[data-video-url]">>

(* video.Eval(`() => this.currentSrc || this.src`) and Value.String(): a   *)
(* media element reflects its src attribute; on any other element both     *)
(* properties are undefined, which String() prints as <nil>                *)
EvalCurrentSrc(el) ==
  IF el.currentSrc # <<>> THEN el.currentSrc
  ELSE IF el.tag \in {"video", "img"} THEN Attribute(el, "src")
  ELSE <<"<","n","i","l",">">>

(* the probes of one element with the script probe run first *)
ElementCandidatesCurrentFirst(el) ==
  NonEmpty(<<EvalCurrentSrc(el), Attribute(el, "src"), Attribute(el, "data-video-url")>>
           \o el.sources)

(* the values main.go:471-527 tests for one matched element, in order *)
ElementCandidates(el) ==
  NonEmpty(<<Attribute(el, "src"), Attribute(el, "data-video-url")>>
           \o el.sources
           \o <<EvalCurrentSrc(el)>>)

(* the values the selector loop tests, in order; only the first `answered` *)
(* selector probes are answered before the strategy's one 5 s context      *)
(* expires, every later page.Elements call returns an error                *)
DOMVideoCandidates(page, answered) ==
  Flatten([i \in DOMAIN videoSelectors |->
             IF i <= answered
             THEN LET els == Elements(page, videoSelectors[i])
                  IN  Flatten([j \in DOMAIN els |-> ElementCandidates(els[j])])
             ELSE <<>>])

(* the loop with a best score that an equal score also replaces *)
RECURSIVE BestImageLastOnTie(_, _, _, _)
BestImageLastOnTie(urls, i, bestURL, bestScore) ==
  IF i > Len(urls) THEN [url |-> bestURL, score |-> bestScore]
  ELSE IF isValidImageURL(urls[i]) /\ ~isValidVideoURL(urls[i])
            /\ scoreImageURL(urls[i]) >= bestScore
       THEN BestImageLastOnTie(urls, i + 1, urls[i], scoreImageURL(urls[i]))
       ELSE BestImageLastOnTie(urls, i + 1, bestURL, bestScore)

(* the loop of main.go:541-552: the best score so far is replaced only by  *)
(* a strictly higher one                                                   *)
RECURSIVE BestImage(_, _, _, _)
BestImage(urls, i, bestURL, bestScore) ==
  IF i > Len(urls) THEN [url |-> bestURL, score |-> bestScore]
  ELSE IF isValidImageURL(urls[i]) /\ ~isValidVideoURL(urls[i])
            /\ scoreImageURL(urls[i]) > bestScore
       THEN BestImage(urls, i + 1, urls[i], scoreImageURL(urls[i]))
       ELSE BestImage(urls, i + 1, bestURL, bestScore)

AcceptanceFloor == 50

extractFromDOMElements(page, pageType, answered) ==
  IF pageType = "video"
  THEN LET valid == SelectSeq(DOMVideoCandidates(page, answered), isValidVideoURL)
       IN  IF valid # <<>> THEN MediaResult(valid[1], "video") ELSE NoResult
  ELSE IF answered >= 1
       THEN LET imgs == Elements(page, "img")
                srcs == [i \in DOMAIN imgs |-> Attribute(imgs[i], "src")]
                best == BestImage(srcs, 1, <<>>, 0)
            IN  IF best.url # <<>> /\ best.score > AcceptanceFloor
                THEN MediaResult(best.url, "image")
                ELSE NoResult
       ELSE NoResult

-----------------------------------------------------------------------------
(* extractVideoMetadata (main.go:683-769) *)

DigitRun(s) == Take(s, RunEnd(s, 1, Digits))

(* the fields a metadata pattern matches: none of these patterns allows    *)
(* white space after the colon                                             *)
JsonString(f, key) ==
  f.kind = "json" /\ f.key = key /\ ~f.ws /\ f.quoted /\ f.val # <<>>

(* FindStringSubmatch: the first of the matches in the markup, <<>> when none *)
FirstField(hits) == IF hits = <<>> THEN <<>> ELSE <<hits[1]>>

(* main.go:695-699, in the order main.go:728-766 stores them *)
qualityFields ==
  << [label |-> "browser_hd", key |-> "browser_native_hd_url"],
     [label |-> "browser_sd", key |-> "browser_native_sd_url"],
     [label |-> "hd_src", key |-> "hd_src"],
     [label |-> "sd_src", key |-> "sd_src"],
     [label |-> "playable_url", key |-> "playable_url"] >>

RECURSIVE QualityMap(_, _)
QualityMap(html, i) ==
  IF i > Len(qualityFields) THEN NoMap
  ELSE LET m == FirstField(SelectSeq(html, LAMBDA f : JsonString(f, qualityFields[i].key)))
       IN  IF m = <<>> THEN QualityMap(html, i + 1)
           ELSE (qualityFields[i].label :> unescapeURL(m[1].val)) @@ QualityMap(html, i + 1)

MsPerSecond == 1000

NoMetadata ==
  [VideoID |-> <<>>, Title |-> <<>>, Duration |-> 0, VideoUrls |-> NoMap, Metadata |-> NoMap]

(* extractVideoMetadata giving up when the markup names no video id: the   *)
(* other fields are then not looked for                                    *)
extractVideoMetadataNeedsID(html) ==
  LET idm == FirstField(SelectSeq(html, LAMBDA f : f.kind = "json" /\ f.key = "video_id" /\ ~f.ws
                                          /\ DigitRun(f.val) # <<>>))
      dm == FirstField(SelectSeq(html, LAMBDA f : f.kind = "json" /\ f.key = "playable_duration_in_ms"
                                         /\ ~f.ws /\ ~f.quoted /\ DigitRun(f.val) # <<>>))
      parsed == dm # <<>> /\ FitsInt64(DigitRun(dm[1].val))
      duration == IF parsed THEN ParseDigits(DigitRun(dm[1].val)) \div 1000 ELSE 0
  IN  IF idm = <<>> THEN NoMetadata
      ELSE [VideoID |-> DigitRun(idm[1].val),
            Title |-> <<>>,
            Duration |-> duration,
            VideoUrls |-> QualityMap(html, 1),
            Metadata |-> ("video_id" :> DigitRun(idm[1].val))
                         @@ (IF parsed THEN "duration" :> (Itoa(duration) \o <<" ","s","e","c","o","n","d","s">>)
                             ELSE NoMap)]

extractVideoMetadata(html) ==
  LET idm == FirstField(SelectSeq(html, LAMBDA f : f.kind = "json" /\ f.key = "video_id" /\ ~f.ws
                                          /\ DigitRun(f.val) # <<>>))
      videoID == IF idm = <<>> THEN <<>> ELSE DigitRun(idm[1].val)
      tm == FirstField(SelectSeq(html, LAMBDA f : f.kind = "tag" /\ f.key = "title" /\ f.val # <<>>))
      title == IF tm = <<>> THEN <<>>
               ELSE ReplaceAll(ReplaceAll(TrimSpace(tm[1].val),
                                          <<" ","|"," ","F","a","c","e","b","o","o","k">>, <<>>),
                               <<" ","-"," ","F","a","c","e","b","o","o","k">>, <<>>)
      dm == FirstField(SelectSeq(html, LAMBDA f : f.kind = "json" /\ f.key = "playable_duration_in_ms"
                                         /\ ~f.ws /\ ~f.quoted /\ DigitRun(f.val) # <<>>))
      parsed == dm # <<>> /\ FitsInt64(DigitRun(dm[1].val))
      duration == IF parsed THEN ParseDigits(DigitRun(dm[1].val)) \div MsPerSecond ELSE 0
  IN  [VideoID |-> videoID,
       Title |-> title,
       Duration |-> duration,
       VideoUrls |-> QualityMap(html, 1),
       Metadata |->
         (IF idm # <<>> THEN "video_id" :> videoID ELSE NoMap)
         @@ (IF tm # <<>> THEN "title" :> title ELSE NoMap)
         @@ (IF parsed THEN "duration" :> (Itoa(duration) \o <<" ","s","e","c","o","n","d","s">>)
             ELSE NoMap)]

-----------------------------------------------------------------------------
(* extractFromSourceCode (main.go:569-681) *)

(* a capture of the form [^"]+\.mp4[^"]* *)
HoldsMp4(val) == \E i \in 2..Len(val) : OccursAt(val, i, S_mp4)

(* main.go:584-608, in order. keys: the script fields (or attributes) whose *)
(* markup text the pattern matches; mp4: the capture must hold ".mp4"      *)
(* after at least one character; group: the pattern has a capture group    *)
(* (a match of a pattern without one has length 1 and is skipped by        *)
(* main.go:619)                                                            *)
videoPatterns ==
  << [kind |-> "json", keys |-> {"video_versions"}, mp4 |-> FALSE, group |-> TRUE],
     [kind |-> "json", keys |-> {"video_url"}, mp4 |-> FALSE, group |-> TRUE],
     [kind |-> "json", keys |-> {"url", "video_versions", "candidates"}, mp4 |-> TRUE, group |-> TRUE],
     [kind |-> "json", keys |-> {"video_versions"}, mp4 |-> TRUE, group |-> TRUE],
     [kind |-> "json", keys |-> {"playback_url"}, mp4 |-> FALSE, group |-> TRUE],
     [kind |-> "text", keys |-> {}, mp4 |-> TRUE, group |-> FALSE],
     [kind |-> "text", keys |-> {}, mp4 |-> TRUE, group |-> FALSE],
     [kind |-> "text", keys |-> {}, mp4 |-> TRUE, group |-> FALSE],
     [kind |-> "json", keys |-> {"src", "video_resources"}, mp4 |-> TRUE, group |-> TRUE],
     [kind |-> "json", keys |-> {"browser_native_hd_url"}, mp4 |-> FALSE, group |-> TRUE],
     [kind |-> "json", keys |-> {"browser_native_sd_url"}, mp4 |-> FALSE, group |-> TRUE],
     [kind |-> "json", keys |-> {"video_dash_manifest"}, mp4 |-> FALSE, group |-> TRUE],
     [kind |-> "json", keys |-> {"candidates"}, mp4 |-> TRUE, group |-> TRUE],
     [kind |-> "json", keys |-> {"video_resources"}, mp4 |-> TRUE, group |-> TRUE],
     [kind |-> "attr", keys |-> {"data-video-url"}, mp4 |-> FALSE, group |-> TRUE],
     [kind |-> "attr", keys |-> {"data-src"}, mp4 |-> TRUE, group |-> TRUE] >>

(* main.go:649-656: the three CDN patterns capture only the file           *)
(* extension, so matches[1] is "jpg", "jpeg", "png" or "webp"              *)
imagePatterns ==
  << [kind |-> "json", keys |-> {"display_url"}, ext |-> FALSE, group |-> TRUE],
     [kind |-> "json", keys |-> {"image_url"}, ext |-> FALSE, group |-> TRUE],
     [kind |-> "json", keys |-> {"url", "video_versions", "candidates"}, ext |-> TRUE, group |-> TRUE],
     [kind |-> "text", keys |-> {}, ext |-> TRUE, group |-> FALSE],
     [kind |-> "text", keys |-> {}, ext |-> TRUE, group |-> FALSE],
     [kind |-> "text", keys |-> {}, ext |-> TRUE, group |-> FALSE] >>

(* these patterns allow white space after the colon *)
PatternMatches(pat, f) ==
  /\ pat.group
  /\ f.kind = pat.kind
  /\ f.key \in pat.keys
  /\ f.quoted
  /\ f.val # <<>>

(* re.FindAllStringSubmatch(html, -1): match[1] of every match, in order *)
VideoCaptures(pat, html) ==
  LET hits == SelectSeq(html, LAMBDA f : PatternMatches(pat, f) /\ (pat.mp4 => HoldsMp4(f.val)))
  IN  [i \in DOMAIN hits |-> hits[i].val]

HoldsImageExt(val) ==
  \E e \in imageExtensions : \E i \in 2..Len(val) : OccursAt(val, i, e)

(* re.FindStringSubmatch(html): matches[1] of the first match *)
ImageCapture(pat, html) ==
  LET hits == SelectSeq(html, LAMBDA f : PatternMatches(pat, f) /\ (pat.ext => HoldsImageExt(f.val)))
  IN  IF hits = <<>> THEN <<>> ELSE <<hits[1].val>>

extractFromSourceCode(page, pageType, htmlOk) ==
  IF ~htmlOk THEN NoResult
  ELSE
    LET html == HTML(page)
        vcaps == Flatten([i \in DOMAIN videoPatterns |-> VideoCaptures(videoPatterns[i], html)])
        vurls == [i \in DOMAIN vcaps |-> unescapeURL(vcaps[i])]
        vvalid == SelectSeq(vurls, isValidVideoURL)
        icaps == Flatten([i \in DOMAIN imagePatterns |-> ImageCapture(imagePatterns[i], html)])
        iurls == [i \in DOMAIN icaps |-> unescapeURL(icaps[i])]
        ivalid == SelectSeq(iurls, LAMBDA u : isValidImageURL(u) /\ ~isValidVideoURL(u))
        md == extractVideoMetadata(html)
    IN  IF vvalid # <<>>
        THEN [MediaURL |-> vvalid[1], MediaType |-> "video", Success |-> TRUE,
              VideoID |-> md.VideoID, Title |-> md.Title, Duration |-> md.Duration,
              VideoUrls |-> md.VideoUrls, Metadata |-> md.Metadata]
        ELSE IF pageType = "image" /\ ivalid # <<>>
             THEN MediaResult(ivalid[1], "image")
             ELSE NoResult

-----------------------------------------------------------------------------
(* analyzePageContent (main.go:233-386): the content-type classifier *)

(* main.go:238-245: the attribute a selector names, its value, and the     *)
(* content the selector requires (<<>>: none)                              *)
videoIndicators ==
  << [attr |-> "property", val |-> <<"o","g",":","v","i","d","e","o",":","u","r","l">>, content |-> <<>>],
     [attr |-> "property", val |-> <<"o","g",":","v","i","d","e","o">>, content |-> <<>>],
     [attr |-> "property", val |-> <<"o","g",":","v","i","d","e","o",":","s","e","c","u","r","e","_","u","r","l">>, content |-> <<>>],
     [attr |-> "name", val |-> <<"t","w","i","t","t","e","r",":","p","l","a","y","e","r",":","s","t","r","e","a","m">>, content |-> <<>>],
     [attr |-> "property", val |-> <<"o","g",":","t","y","p","e">>, content |-> S_video],
     [attr |-> "property", val |-> <<"o","g",":","t","y","p","e">>, content |-> <<"v","i","d","e","o",".","o","t","h","e","r">>] >>

MatchesMeta(el, sel) ==
  /\ el.tag = "meta"
  /\ HasAttr(el, sel.attr)
  /\ el.attrs[sel.attr] = sel.val
  /\ (sel.content # <<>> => Attribute(el, "content") = sel.content)

(* the loop of main.go:247-257. page.Context(ctx).Element(selector) keeps  *)
(* retrying until an element matches or the 3 s context of main.go:234 is  *)
(* done; once it is done every later call on that context fails at once.   *)
(* "video": main.go:253; "expired": a selector matched nothing; "none":    *)
(* every selector matched and no content named a video.                    *)
RECURSIVE ScanIndicators(_, _)
ScanIndicators(page, i) ==
  IF i > Len(videoIndicators) THEN "none"
  ELSE LET hits == SelectSeq(page.elements, LAMBDA el : MatchesMeta(el, videoIndicators[i]))
       IN  IF hits = <<>> THEN "expired"
           ELSE IF \/ Contains(Attribute(hits[1], "content"), S_video)
                   \/ Contains(Attribute(hits[1], "content"), S_mp4)
                THEN "video"
                ELSE ScanIndicators(page, i + 1)

(* main.go:260-293 *)
HasPlayableVideoElement(page) ==
  LET els == Elements(page, "video")
  IN  \E j \in DOMAIN els :
        \/ isValidVideoURL(Attribute(els[j], "src"))
        \/ isValidVideoURL(Attribute(els[j], "data-src"))
        \/ \E k \in DOMAIN els[j].sources : isValidVideoURL(els[j].sources[k])

(* main.go:298-313: a script field one of the indicator patterns matches *)
IndicatorField(f) ==
  /\ f.kind = "json"
  /\ \/ /\ f.key = "__typename" /\ ~f.ws /\ f.quoted
        /\ f.val \in {<<"V","i","d","e","o">>, <<"X","D","T","G","r","a","p","h","V","i","d","e","o">>}
     \/ f.key = "is_video" /\ ~f.ws /\ ~f.quoted /\ HasPrefix(f.val, <<"t","r","u","e">>)
     \/ f.key = "media_type" /\ ~f.ws /\ ~f.quoted /\ HasPrefix(f.val, <<"2">>)
     \/ f.key = "media_type" /\ ~f.ws /\ f.quoted /\ f.val = <<"2">>
     \/ /\ f.key = "product_type" /\ ~f.ws /\ f.quoted
        /\ f.val \in {<<"c","l","i","p","s">>, <<"i","g","t","v">>}
     \/ f.key \in {"video_url", "video_dash_manifest"} /\ ~f.ws /\ f.quoted
     \/ f.key = "video_versions"
     \/ f.key \in {"video_duration", "has_audio", "playback_duration_secs"}

(* main.go:311: "original_width":.*"original_height": *)
HasDimensions(html) ==
  \E i \in DOMAIN html : \E j \in DOMAIN html :
    /\ i < j
    /\ html[i].kind = "json" /\ html[i].key = "original_width"
    /\ html[j].kind = "json" /\ html[j].key = "original_height"

(* main.go:330-339, in order; mp4 as in videoPatterns; ws: the pattern     *)
(* allows white space after the colon                                      *)
videoURLPatterns ==
  << [keys |-> {"video_url"}, mp4 |-> FALSE, ws |-> TRUE],
     [keys |-> {"url", "video_versions", "candidates"}, mp4 |-> TRUE, ws |-> TRUE],
     [keys |-> {"video_versions"}, mp4 |-> FALSE, ws |-> TRUE],
     [keys |-> {"video_versions"}, mp4 |-> TRUE, ws |-> FALSE],
     [keys |-> {"src", "video_resources"}, mp4 |-> TRUE, ws |-> TRUE],
     [keys |-> {"video_dash_manifest"}, mp4 |-> FALSE, ws |-> TRUE],
     [keys |-> {"browser_native_hd_url"}, mp4 |-> FALSE, ws |-> TRUE],
     [keys |-> {"browser_native_sd_url"}, mp4 |-> FALSE, ws |-> TRUE] >>

(* main.go:341-351: re.FindStringSubmatch gives the first match alone, and *)
(* its capture is tested as it stands in the markup, escapes included      *)
HasVideoURLInMarkup(html) ==
  \E i \in DOMAIN videoURLPatterns :
    LET pat == videoURLPatterns[i]
        m == FirstField(SelectSeq(html, LAMBDA f : /\ f.kind = "json" /\ f.key \in pat.keys
                                         /\ f.quoted /\ f.val # <<>>
                                         /\ (f.ws => pat.ws)
                                         /\ (pat.mp4 => HoldsMp4(f.val))))
    IN  m # <<>> /\ isValidVideoURL(m[1].val)

(* every return of main.go:354-385 is "image" *)
analyzePageContent(page) ==
  LET scan == ScanIndicators(page, 1)
      html == HTML(page)
  IN  IF scan = "video" THEN "video"
      ELSE IF scan = "expired" THEN "image"
      ELSE IF HasPlayableVideoElement(page) THEN "video"
      ELSE IF (\E i \in DOMAIN html : IndicatorField(html[i])) \/ HasDimensions(html) THEN "video"
      ELSE IF HasVideoURLInMarkup(html) THEN "video"
      ELSE "image"

-----------------------------------------------------------------------------
(* The calls: state before any request has arrived *)

MaxCalls == 2

Calls == 1..MaxCalls

BlankPage == [elements |-> <<>>, title |-> <<>>, script |-> <<>>]

NoResponse == [status |-> 0, success |-> FALSE, error |-> "", payload |-> NoResult]

CallsIdle ==
  /\ pc = [c \in Calls |-> "idle"]
  /\ input = [c \in Calls |-> <<>>]
  /\ normalized = [c \in Calls |-> <<>>]
  /\ session = {}
  /\ opened = [c \in Calls |-> 0]
  /\ rendered = [c \in Calls |-> BlankPage]
  /\ ctx = [c \in Calls |-> "none"]
  /\ result = [c \in Calls |-> NoResult]
  /\ err = [c \in Calls |-> ""]
  /\ panicking = [c \in Calls |-> FALSE]
  /\ faultAt = [c \in Calls |-> ""]
  /\ chain = [c \in Calls |-> <<>>]
  /\ response = [c \in Calls |-> NoResponse]
  /\ afterFault = [c \in Calls |-> FALSE]

(* the media predicates before any has been applied *)
MediaIdle ==
  /\ mParts = [host |-> <<>>, dir |-> <<>>, name |-> <<>>, suffix |-> <<>>]
  /\ mVideo = <<>>
  /\ mImage = <<>>
  /\ mScore = <<>>
  /\ mTwinScore = <<>>

(* extractVideoMetadata before it has been applied *)
MetaIdle ==
  /\ xParts = [id |-> "absent", title |-> "absent", dur |-> "absent", tiers |-> {}]
  /\ xOut = <<>>
  /\ xSolo = <<>>

(* the strategies before any has been applied *)
StrategiesIdle ==
  /\ sParts = [els |-> <<>>, hd |-> "absent", dur |-> "absent", other |-> "none"]
  /\ sCall = <<>>
  /\ sOut = <<>>

(* handleDownload before any request *)
DownloadIdle ==
  /\ dParts = [method |-> "", host |-> <<>>, path |-> <<>>, filename |-> <<>>]
  /\ dOut = <<>>

ProbesIdle == MediaIdle /\ MetaIdle /\ StrategiesIdle /\ DownloadIdle

-----------------------------------------------------------------------------
(* Inputs of the normalizer *)

SchemeSamples ==
  { <<"h","t","t","p","s",":","/","/">>,
    <<"h","t","t","p",":","/","/">>,
    <<>> }

HostSamples ==
  { <<"w","w","w",".","t","h","r","e","a","d","s",".","n","e","t">>,
    <<"t","h","r","e","a","d","s",".","n","e","t">>,
    <<"m",".","t","h","r","e","a","d","s",".","c","o","m">>,
    <<"W","W","W",".","T","h","r","e","a","d","s",".","N","E","T">>,
    <<"M",".","T","h","r","e","a","d","s",".","C","o","m">>,
    <<"e","v","i","l","t","h","r","e","a","d","s",".","n","e","t">>,
    <<"t","h","r","e","a","d","s",".","n","e","t",".","e","v","i","l",".","i","o">>,
    <<"e","x","a","m","p","l","e",".","c","o","m">>,
    <<"t","h","r","e","a","d","s"," ",".","n","e","t">> }

PathSamples ==
  { <<"/","@","a","l","i","c","e","/","p","o","s","t","/","C","a","b","c","1","2","3">>,
    <<"/","@","a","l","i","c","e","/","p","o","s","t","/","C","a","b","c","1","2","3","/">>,
    <<"/","@","a",".","b","-","c","/","p","o","s","t","/","x","_","1">>,
    <<"/","n","o","t","a","p","o","s","t","u","r","l">>,
    <<"/","@","a","l","i","c","e","/","p","o","s","t","/">>,
    <<"/","@","/","p","o","s","t","/","x","1">>,
    <<"/","@","a","l","i","c","e","/","p","o","s","t","/","x","1","/","e","x","t","r","a">>,
    <<"/","@","a","l","i","c","e","/","p","o","s","t","/","x","1","%","3","F","y">>,
    <<"/","@","a","l","i","c","e","/","p","o","s","t","s","/","x","1">>,
    <<"/","@","a","l","i","c","e","/","p","o","s","t","/","x","1","%","z","z">>,
    <<"/","x","/","@","a","l","i","c","e","/","p","o","s","t","/","y","1">>,
    <<>> }

TailSamples ==
  { <<>>,
    <<"?","h","l","=","e","n">>,
    <<"#","t","o","p">> }

RawOf(parts) == parts.scheme \o parts.host \o parts.path \o parts.tail

NotRun == [err |-> "not run", url |-> <<>>]

InitNorm ==
  /\ CallsIdle
  /\ ProbesIdle
  /\ nParts \in [scheme : SchemeSamples, host : HostSamples, path : PathSamples, tail : TailSamples]
  /\ nOut = NotRun
  /\ nAgain = NotRun
  /\ nTwin = NotRun

(* normalizeURL on the input *)
NormalizeInput ==
  /\ nOut = NotRun
  /\ nOut' = normalizeURL(RawOf(nParts))
  /\ UNCHANGED <<nParts, nAgain, nTwin, callVars, probeVars>>

(* normalizeURL on the URL it returned *)
NormalizeAgain ==
  /\ nOut # NotRun
  /\ nOut.err = ""
  /\ nAgain = NotRun
  /\ nAgain' = normalizeURL(nOut.url)
  /\ UNCHANGED <<nParts, nOut, nTwin, callVars, probeVars>>

(* normalizeURL on the same input with the host written in lower case *)
NormalizeTwin ==
  /\ nTwin = NotRun
  /\ nTwin' = normalizeURL(RawOf([nParts EXCEPT !.host = ToLower(@)]))
  /\ UNCHANGED <<nParts, nOut, nAgain, callVars, probeVars>>

NextNorm == NormalizeInput \/ NormalizeAgain \/ NormalizeTwin

SpecNorm == InitNorm /\ [][NextNorm]_vars

-----------------------------------------------------------------------------
(* Requests and rendered pages the calls are run on *)

CallInputs ==
  { <<"h","t","t","p","s",":","/","/","w","w","w",".","t","h","r","e","a","d","s",".","n","e","t","/","@","a","l","i","c","e","/","p","o","s","t","/","C","a","b","c","1","2","3","?","h","l","=","e","n">>,
    <<"h","t","t","p","s",":","/","/","t","h","r","e","a","d","s",".","n","e","t","/","n","o","t","a","p","o","s","t","u","r","l">>,
    <<"h","t","t","p","s",":","/","/","e","x","a","m","p","l","e",".","c","o","m","/","@","a","l","i","c","e","/","p","o","s","t","/","C","a","b","c","1","2","3">>,
    <<"h","t","t","p","s",":","/","/","w","w","w",".","t","h","r","e","a","d","s",".","n","e","t","/","@","a","l","i","c","e","/","p","o","s","t","/","x","1","%","z","z">> }

U_DomVideo == <<"h","t","t","p","s",":","/","/","v","i","d","e","o",".","f","b","c","d","n",".","n","e","t","/","x",".","m","p","4">>

(* as it stands in the script state: '/' written \/ and '&' written \u0026 *)
U_HdEscaped == <<"h","t","t","p","s",":","\\","/","\\","/","s","c","o","n","t","e","n","t",".","c","d","n","i","n","s","t","a","g","r","a","m",".","c","o","m","\\","/","h","d",".","m","p","4","?","a","=","1","\\","u","0","0","2","6","b","=","2">>

U_Image == <<"h","t","t","p","s",":","/","/","s","c","o","n","t","e","n","t",".","c","d","n","i","n","s","t","a","g","r","a","m",".","c","o","m","/","p","1","0","8","0","x","1","0","8","0","/","a",".","j","p","g">>

U_Profile == <<"h","t","t","p","s",":","/","/","s","c","o","n","t","e","n","t",".","c","d","n","i","n","s","t","a","g","r","a","m",".","c","o","m","/","p","r","o","f","i","l","e","/","p",".","j","p","g">>

JsonField(key, quoted, val) == [kind |-> "json", key |-> key, ws |-> FALSE, quoted |-> quoted, val |-> val]

VideoElement(src) ==
  [tag |-> "video", attrs |-> ("src" :> src), sources |-> <<>>, currentSrc |-> src]

ImgElement(src) ==
  [tag |-> "img", attrs |-> ("src" :> src), sources |-> <<>>, currentSrc |-> <<>>]

MetaElement(property, content) ==
  [tag |-> "meta",
   attrs |-> ("property" :> property @@ "content" :> content),
   sources |-> <<>>, currentSrc |-> <<>>]

(* an og:video:url meta tag, a <video src> the DOM strategy accepts and a  *)
(* script video_url the                                                    *)
(* source strategy accepts                                                 *)
PageBoth ==
  [elements |-> <<MetaElement(<<"o","g",":","v","i","d","e","o",":","u","r","l">>, U_DomVideo),
                  VideoElement(U_DomVideo)>>,
   title |-> <<"C","l","i","p"," ","|"," ","F","a","c","e","b","o","o","k">>,
   script |-> <<JsonField("video_url", TRUE, U_HdEscaped)>>]

(* no media element; the script state holds an HD URL and a duration *)
PageSourceOnly ==
  [elements |-> <<>>,
   title |-> <<>>,
   script |-> <<JsonField("browser_native_hd_url", TRUE, U_HdEscaped),
                JsonField("playable_duration_in_ms", FALSE, <<"3","0","9","9","9">>)>>]

(* an image post: one content image, no video anywhere *)
PageImage ==
  [elements |-> <<ImgElement(U_Profile), ImgElement(U_Image)>>,
   title |-> <<>>,
   script |-> <<JsonField("display_url", TRUE, U_Image)>>]

(* only a profile picture *)
PageProfileOnly ==
  [elements |-> <<ImgElement(U_Profile)>>, title |-> <<>>, script |-> <<>>]

PagePool == {PageBoth, PageSourceOnly, PageImage, PageProfileOnly}

-----------------------------------------------------------------------------
(* handleExtract (main.go:954-1011) calling extractMediaURL               *)
(* (main.go:152-230). The deferred functions run last-registered first:   *)
(* cancel (184), page.MustClose (169), the recover closure (154-159).      *)

ErrNavigation == "failed to navigate to Threads post"
ErrLoadWait == "page load wait failed"
ErrElementWait == "element wait failed"
ErrNoMedia == "Threads extraction failed - unable to find media URLs in page source"
ErrInternal == "extraction failed due to internal error"

(* a request arrives: result, err := te.extractMediaURL(req.URL) *)
Enter(c) ==
  /\ pc[c] = "idle"
  /\ \E u \in CallInputs : input' = [input EXCEPT ![c] = u]
  /\ afterFault' = [afterFault EXCEPT ![c] =
                      \E d \in Calls : faultAt[d] # "" /\ pc[d] \in {"returned", "responded"}]
  /\ pc' = [pc EXCEPT ![c] = "normalize"]
  /\ UNCHANGED <<normVars, probeVars, normalized, session, opened, rendered, ctx, result, err, panicking,
                 faultAt, chain, response>>

(* the entry with the check of main.go:163-165 left out: the call goes on  *)
(* to open its page whatever normalizeURL returned                         *)
NormalizeUnchecked(c) ==
  /\ pc[c] = "normalize"
  /\ LET n == normalizeURL(input[c])
     IN  /\ err' = [err EXCEPT ![c] = n.err]
         /\ normalized' = [normalized EXCEPT ![c] = n.url]
  /\ pc' = [pc EXCEPT ![c] = "newpage"]
  /\ UNCHANGED <<normVars, probeVars, input, session, opened, rendered, ctx, result, panicking,
                 faultAt, chain, response, afterFault>>

(* main.go:161-165: only the recover closure is deferred at this return *)
NormalizeStep(c) ==
  /\ pc[c] = "normalize"
  /\ LET n == normalizeURL(input[c])
     IN  IF n.err # ""
         THEN /\ err' = [err EXCEPT ![c] = n.err]
              /\ pc' = [pc EXCEPT ![c] = "recover"]
              /\ UNCHANGED normalized
         ELSE /\ normalized' = [normalized EXCEPT ![c] = n.url]
              /\ pc' = [pc EXCEPT ![c] = "newpage"]
              /\ UNCHANGED err
  /\ UNCHANGED <<normVars, probeVars, input, session, opened, rendered, ctx, result, panicking, faultAt,
                 chain, response, afterFault>>

(* main.go:168-169: te.browser.MustPage() and defer page.MustClose(); a    *)
(* MustPage that panics has opened no page and deferred no close           *)
MustPage(c) ==
  /\ pc[c] = "newpage"
  /\ \/ /\ session' = session \cup {c}
        /\ opened' = [opened EXCEPT ![c] = @ + 1]
        /\ pc' = [pc EXCEPT ![c] = "useragent"]
        /\ UNCHANGED <<panicking, faultAt>>
     \/ /\ panicking' = [panicking EXCEPT ![c] = TRUE]
        /\ faultAt' = [faultAt EXCEPT ![c] = "newpage"]
        /\ pc' = [pc EXCEPT ![c] = "recover"]
        /\ UNCHANGED <<session, opened>>
  /\ UNCHANGED <<normVars, probeVars, input, normalized, rendered, ctx, result, err, chain, response, afterFault>>

(* main.go:173-175: page.MustSetUserAgent *)
SetUserAgent(c) ==
  /\ pc[c] = "useragent"
  /\ pc' = [pc EXCEPT ![c] = "viewport"]
  /\ UNCHANGED <<normVars, probeVars, input, normalized, session, opened, rendered, ctx, result, err,
                 panicking, faultAt, chain, response, afterFault>>

(* main.go:178: page.MustSetViewport *)
SetViewport(c) ==
  /\ pc[c] = "viewport"
  /\ pc' = [pc EXCEPT ![c] = "navigate"]
  /\ UNCHANGED <<normVars, probeVars, input, normalized, session, opened, rendered, ctx, result, err,
                 panicking, faultAt, chain, response, afterFault>>

(* main.go:183-191: the 15 s context is created and the page navigated;    *)
(* a navigation error returns at once                                      *)
Navigate(c) ==
  /\ pc[c] = "navigate"
  /\ \/ /\ \E p \in PagePool : rendered' = [rendered EXCEPT ![c] = p]
        /\ ctx' = [ctx EXCEPT ![c] = "live"]
        /\ err' = [err EXCEPT ![c] = ""]
        /\ pc' = [pc EXCEPT ![c] = "waitload"]
     \/ /\ \E x \in {"live", "expired"} : ctx' = [ctx EXCEPT ![c] = x]
        /\ err' = [err EXCEPT ![c] = ErrNavigation]
        /\ pc' = [pc EXCEPT ![c] = "close"]
        /\ UNCHANGED rendered
  /\ UNCHANGED <<normVars, probeVars, input, normalized, session, opened, result, panicking, faultAt,
                 chain, response, afterFault>>

(* main.go:194-197: page.Context(ctx).WaitLoad(); its error is logged and  *)
(* left in err, and the call goes on. The wait shares the navigation       *)
(* context: when it runs into the deadline the context is expired.         *)
WaitLoad(c) ==
  /\ pc[c] = "waitload"
  /\ \/ /\ err' = [err EXCEPT ![c] = ""]
        /\ UNCHANGED ctx
     \/ /\ err' = [err EXCEPT ![c] = ErrLoadWait]
        /\ ctx' = [ctx EXCEPT ![c] = "expired"]
  /\ pc' = [pc EXCEPT ![c] = "waitelements"]
  /\ UNCHANGED <<normVars, probeVars, input, normalized, session, opened, rendered, result, panicking,
                 faultAt, chain, response, afterFault>>

(* main.go:203-212: page.Context(ctx).WaitElementsMoreThan(videoSelector,  *)
(* 0) on the same context: with the context expired it fails at once       *)
WaitElements(c) ==
  /\ pc[c] = "waitelements"
  /\ \/ /\ ctx[c] = "live"
        /\ err' = [err EXCEPT ![c] = ""]
        /\ UNCHANGED ctx
     \/ /\ err' = [err EXCEPT ![c] = ErrElementWait]
        /\ ctx' = [ctx EXCEPT ![c] = "expired"]
  /\ pc' = [pc EXCEPT ![c] = "dom"]
  /\ UNCHANGED <<normVars, probeVars, input, normalized, session, opened, rendered, result, panicking,
                 faultAt, chain, response, afterFault>>

Ran(strategy, pageType, r) ==
  [strategy |-> strategy, pageType |-> pageType, result |-> r]

(* the DOM step without the return of main.go:219: the source strategy     *)
(* runs whatever the DOM strategy found                                    *)
RunDOMThrough(c) ==
  /\ pc[c] = "dom"
  /\ \E answered \in 0..Len(videoSelectors) :
       LET r == extractFromDOMElements(rendered[c], "video", answered)
       IN  /\ chain' = [chain EXCEPT ![c] = Append(@, Ran("dom", "video", r))]
           /\ IF r.Success
              THEN /\ result' = [result EXCEPT ![c] = r]
                   /\ err' = [err EXCEPT ![c] = ""]
              ELSE UNCHANGED <<result, err>>
  /\ pc' = [pc EXCEPT ![c] = "source"]
  /\ UNCHANGED <<normVars, probeVars, input, normalized, session, opened, rendered, ctx, panicking,
                 faultAt, response, afterFault>>

(* main.go:217-220: te.extractFromDOMElements(page, "video"); a result     *)
(* returns at once                                                         *)
RunDOM(c) ==
  /\ pc[c] = "dom"
  /\ \E answered \in 0..Len(videoSelectors) :
       LET r == extractFromDOMElements(rendered[c], "video", answered)
       IN  /\ chain' = [chain EXCEPT ![c] = Append(@, Ran("dom", "video", r))]
           /\ IF r.Success
              THEN /\ result' = [result EXCEPT ![c] = r]
                   /\ err' = [err EXCEPT ![c] = ""]
                   /\ pc' = [pc EXCEPT ![c] = "close"]
              ELSE /\ pc' = [pc EXCEPT ![c] = "source"]
                   /\ UNCHANGED <<result, err>>
  /\ UNCHANGED <<normVars, probeVars, input, normalized, session, opened, rendered, ctx, panicking,
                 faultAt, response, afterFault>>

(* main.go:224-229: te.extractFromSourceCode(page, "video"), then the      *)
(* final return                                                            *)
RunSource(c) ==
  /\ pc[c] = "source"
  /\ \E htmlOk \in BOOLEAN :
       LET r == extractFromSourceCode(rendered[c], "video", htmlOk)
       IN  /\ chain' = [chain EXCEPT ![c] = Append(@, Ran("source", "video", r))]
           /\ IF r.Success
              THEN /\ result' = [result EXCEPT ![c] = r]
                   /\ err' = [err EXCEPT ![c] = ""]
              ELSE /\ err' = [err EXCEPT ![c] = ErrNoMedia]
                   /\ UNCHANGED result
  /\ pc' = [pc EXCEPT ![c] = "close"]
  /\ UNCHANGED <<normVars, probeVars, input, normalized, session, opened, rendered, ctx, panicking,
                 faultAt, response, afterFault>>

(* the steps between MustPage and the return at which a panic may be       *)
(* raised: the Must calls and every call into the browser control plane    *)
FaultPoints == {"useragent", "viewport", "navigate", "waitload", "waitelements", "dom", "source"}

(* a panic: the call stops where it is and its deferred functions run *)
Fault(c) ==
  /\ pc[c] \in FaultPoints
  /\ panicking' = [panicking EXCEPT ![c] = TRUE]
  /\ faultAt' = [faultAt EXCEPT ![c] = pc[c]]
  /\ pc' = [pc EXCEPT ![c] = "close"]
  /\ UNCHANGED <<normVars, probeVars, input, normalized, session, opened, rendered, ctx, result, err,
                 chain, response, afterFault>>

(* the deferred cancel() and page.MustClose(). The page is closed; or the  *)
(* close fails and MustClose panics: the browser answered that the close   *)
(* was cancelled and the page stays open, or the connection failed, with   *)
(* the page closed or not                                                  *)
ClosePage(c) ==
  /\ pc[c] = "close"
  /\ ctx' = [ctx EXCEPT ![c] = IF @ = "none" THEN "none" ELSE "cancelled"]
  /\ \/ /\ session' = session \ {c}
        /\ rendered' = [rendered EXCEPT ![c] = BlankPage]
        /\ UNCHANGED <<panicking, faultAt>>
     \/ /\ panicking' = [panicking EXCEPT ![c] = TRUE]
        /\ faultAt' = [faultAt EXCEPT ![c] = "close"]
        /\ \/ UNCHANGED <<session, rendered>>
           \/ /\ session' = session \ {c}
              /\ rendered' = [rendered EXCEPT ![c] = BlankPage]
  /\ pc' = [pc EXCEPT ![c] = "recover"]
  /\ UNCHANGED <<normVars, probeVars, input, normalized, opened, result, err, chain, response, afterFault>>

(* the return without the deferred closure of main.go:154-159 *)
ReturnUnrecovered(c) ==
  /\ pc[c] = "recover"
  /\ pc' = [pc EXCEPT ![c] = "returned"]
  /\ UNCHANGED <<normVars, probeVars, input, normalized, session, opened, rendered, ctx, result, err,
                 panicking, faultAt, chain, response, afterFault>>

(* the deferred closure of main.go:154-159: a panic is recovered and err   *)
(* set; result is left as it is. Then the call returns.                    *)
Recover(c) ==
  /\ pc[c] = "recover"
  /\ IF panicking[c]
     THEN /\ err' = [err EXCEPT ![c] = ErrInternal]
          /\ panicking' = [panicking EXCEPT ![c] = FALSE]
     ELSE UNCHANGED <<err, panicking>>
  /\ pc' = [pc EXCEPT ![c] = "returned"]
  /\ UNCHANGED <<normVars, probeVars, input, normalized, session, opened, rendered, ctx, result, faultAt,
                 chain, response, afterFault>>

StatusOK == 200
StatusBadRequest == 400

(* main.go:997-1009: an error answers 400 with an ErrorResponse, anything  *)
(* else 200 with the result                                                *)
Respond(c) ==
  /\ pc[c] = "returned"
  /\ response' = [response EXCEPT ![c] =
                    IF err[c] # ""
                    THEN [status |-> StatusBadRequest, success |-> FALSE,
                          error |-> err[c], payload |-> NoResult]
                    ELSE [status |-> StatusOK, success |-> result[c].Success,
                          error |-> "", payload |-> result[c]]]
  /\ pc' = [pc EXCEPT ![c] = "responded"]
  /\ UNCHANGED <<normVars, probeVars, input, normalized, session, opened, rendered, ctx, result, err,
                 panicking, faultAt, chain, afterFault>>

Init ==
  /\ CallsIdle
  /\ ProbesIdle
  /\ nParts = [scheme |-> <<>>, host |-> <<>>, path |-> <<>>, tail |-> <<>>]
  /\ nOut = NotRun
  /\ nAgain = NotRun
  /\ nTwin = NotRun

Next ==
  \E c \in Calls :
    \/ Enter(c)
    \/ NormalizeStep(c)
    \/ MustPage(c)
    \/ SetUserAgent(c)
    \/ SetViewport(c)
    \/ Navigate(c)
    \/ WaitLoad(c)
    \/ WaitElements(c)
    \/ RunDOM(c)
    \/ RunSource(c)
    \/ Fault(c)
    \/ ClosePage(c)
    \/ Recover(c)
    \/ Respond(c)

Spec == Init /\ [][Next]_vars

-----------------------------------------------------------------------------
(* Claims about normalizeURL (checked under SpecNorm) *)

NormParsed == ParseURL(RawOf(nParts))

(* the allow-set of post-hosting domains, as a set of host names *)
HostInAllowSet(host) == \E i \in DOMAIN validDomains : validDomains[i] = host

(* the post-path shape matched in full: /@handle/post/id, optional final '/' *)
ExactPostPath(path) ==
  LET h == RunEnd(path, 3, HandleChars)
      e == RunEnd(path, h + 7, PostIdChars)
  IN  /\ HasPrefix(path, <<"/", "@">>)
      /\ h >= 3
      /\ OccursAt(path, h + 1, PostLiteral)
      /\ e >= h + 7
      /\ \/ e = Len(path)
         \/ e + 1 = Len(path) /\ path[e + 1] = "/"

(* C1: every input that parses and whose host is not one of the allow-set  *)
(* domains (compared without regard to letter case) is rejected with the   *)
(* untrusted-domain error, whatever its path.                              *)
C1_UntrustedHostRejected ==
  (nOut # NotRun /\ NormParsed.ok /\ ~HostInAllowSet(ToLower(NormParsed.host)))
    => nOut.err = ErrUntrustedDomain

(* C2: an input with an accepted host whose path is not exactly            *)
(* /@handle/post/id (optional trailing slash) is rejected with the         *)
(* malformed-post-path error, so every accepted path has exactly that      *)
(* shape.                                                                  *)
C2_OnlyPostPathAccepted ==
  /\ (nOut # NotRun /\ NormParsed.ok /\ isValidDomain(NormParsed.host)
        /\ ~ExactPostPath(NormParsed.path))
       => nOut.err = ErrMalformedPostPath
  /\ (nOut # NotRun /\ nOut.err = "") => ExactPostPath(NormParsed.path)

(* C3: an accepted input's output carries no query component, is the       *)
(* canonical host followed by the input's path, and normalizes to itself.  *)
C3_NormalizationIdempotent ==
  (nOut # NotRun /\ nOut.err = "")
    => /\ nOut.url = CanonicalPrefix \o NormParsed.path
       /\ ~Contains(nOut.url, <<"?">>)
       /\ nAgain # NotRun => nAgain = nOut

(* C4: two inputs that differ only in the letter case of the host are      *)
(* both accepted with the same output or both rejected, and an allow-set   *)
(* host in upper or mixed case is accepted.                                *)
C4_HostCaseInsensitive ==
  /\ (nOut # NotRun /\ nTwin # NotRun) => nOut.err = nTwin.err /\ nOut.url = nTwin.url
  /\ (nOut # NotRun /\ NormParsed.ok /\ HostInAllowSet(ToLower(NormParsed.host))
        /\ ExactPostPath(NormParsed.path))
       => nOut.err = ""

(* a host that merely contains an allow-set domain is accepted *)
C1_LookalikeHostAccepted ==
  /\ nOut # NotRun
  /\ NormParsed.ok
  /\ NormParsed.host = <<"e","v","i","l","t","h","r","e","a","d","s",".","n","e","t">>
  /\ nOut.err = ""

(* a path that goes on after the post id is accepted *)
C2_LongerPathAccepted ==
  /\ nOut # NotRun
  /\ NormParsed.path = <<"/","@","a","l","i","c","e","/","p","o","s","t","/","x","1","/","e","x","t","r","a">>
  /\ nOut.err = ""

(* an accepted input whose output carries a '?' and normalizes to another  *)
(* URL                                                                     *)
C3_OutputNotAFixedPoint ==
  /\ nOut # NotRun /\ nOut.err = ""
  /\ Contains(nOut.url, <<"?">>)
  /\ nAgain # NotRun /\ nAgain.err = ""
  /\ nAgain.url # nOut.url

(* an allow-set host in mixed case is rejected while its lower-case twin   *)
(* is accepted                                                             *)
C4_MixedCaseHostRejected ==
  /\ nOut # NotRun /\ nTwin # NotRun
  /\ NormParsed.host = <<"W","W","W",".","T","h","r","e","a","d","s",".","N","E","T">>
  /\ nOut.err = ErrUntrustedDomain
  /\ nTwin.err = ""

-----------------------------------------------------------------------------
(* Claims about extractMediaURL and handleExtract (checked under Spec) *)

Returned(c) == pc[c] \in {"returned", "responded"}

U_ScenarioB == <<"h","t","t","p","s",":","/","/","t","h","r","e","a","d","s",".","n","e","t","/","n","o","t","a","p","o","s","t","u","r","l">>

U_HdPlain == <<"h","t","t","p","s",":","/","/","s","c","o","n","t","e","n","t",".","c","d","n","i","n","s","t","a","g","r","a","m",".","c","o","m","/","h","d",".","m","p","4","?","a","=","1","&","b","=","2">>

(* C5: a call whose input fails validation (invalid URL, untrusted domain, *)
(* malformed post path) returns that error before any browser interaction: *)
(* past the normalize step it is on its way out, it has opened no page,    *)
(* created no navigation context, rendered nothing and run no strategy.    *)
C5_ValidationBeforeBrowser ==
  \A c \in Calls :
    (pc[c] \notin {"idle", "normalize"} /\ normalizeURL(input[c]).err # "")
      => /\ pc[c] \in {"recover", "returned", "responded"}
         /\ opened[c] = 0
         /\ c \notin session
         /\ ctx[c] = "none"
         /\ rendered[c] = BlankPage
         /\ chain[c] = <<>>
         /\ faultAt[c] = ""
         /\ err[c] = normalizeURL(input[c]).err
         /\ result[c] = NoResult

(* scenario B answered with the malformed-post-path error and no page      *)
(* opened, while another call holds an open page in the same session       *)
C5_Witness ==
  \E c \in Calls : \E d \in Calls :
    /\ input[c] = U_ScenarioB
    /\ pc[c] = "responded"
    /\ response[c].status = StatusBadRequest
    /\ response[c].error = ErrMalformedPostPath
    /\ opened[c] = 0
    /\ d \in session

(* C6: a call opens at most one page and, on every exit path (success,     *)
(* navigation failure, no media found, timeout, panic), the page it opened *)
(* is closed by the time the call has returned; once all calls have        *)
(* returned no page is open.                                               *)
C6_PageClosedOnReturn ==
  \A c \in Calls :
    /\ opened[c] <= 1
    /\ (Returned(c) => c \notin session)

(* every call has been answered and a page is still open in the session:   *)
(* its close panicked, the panic was recovered, nothing closed it since    *)
C6_PageLeftOpen ==
  /\ \A c \in Calls : pc[c] = "responded"
  /\ \E c \in Calls :
       /\ c \in session
       /\ opened[c] = 1
       /\ faultAt[c] = "close"
       /\ response[c].error = ErrInternal

(* C7: a panic raised anywhere inside a call is caught at the boundary of  *)
(* extractMediaURL: no call returns while still panicking, a call that     *)
(* panicked returns the generic internal error, and the client is answered *)
(* with that failure.                                                      *)
C7_PanicCaughtAtBoundary ==
  \A c \in Calls :
    /\ (panicking[c] => pc[c] \in {"close", "recover"})
    /\ (Returned(c) /\ faultAt[c] # "" => err[c] = ErrInternal)
    /\ (pc[c] = "responded" /\ faultAt[c] # ""
          => /\ response[c].status = StatusBadRequest
             /\ response[c].error = ErrInternal
             /\ ~response[c].success)

(* a call whose close panicked was answered with the internal error, and a *)
(* call that entered after it had returned ran to completion with a result *)
C7_Witness ==
  \E c \in Calls : \E d \in Calls :
    /\ faultAt[d] = "close" /\ pc[d] = "responded"
    /\ response[d].error = ErrInternal
    /\ afterFault[c] /\ pc[c] = "responded"
    /\ response[c].status = StatusOK /\ response[c].success
    /\ response[c].payload.MediaURL # <<>>

(* C8: a completed call returns either a fully-formed result and no error, *)
(* or an error and no result, never both and never neither; and a call     *)
(* that ended in an error is answered with a failure carrying no payload.  *)
C8_ResultXorError ==
  \A c \in Calls :
    /\ Returned(c)
         => \/ /\ err[c] = ""
               /\ result[c].Success
               /\ result[c].MediaURL # <<>>
               /\ result[c].MediaType \in {"video", "image"}
            \/ /\ err[c] # ""
               /\ result[c] = NoResult
    /\ (pc[c] = "responded" /\ err[c] # ""
          => ~response[c].success /\ response[c].payload = NoResult)

(* a call has returned both a result and the internal error: the close     *)
(* panicked after "return result, nil" had set the result                  *)
C8_BothReturned ==
  \E c \in Calls :
    /\ pc[c] = "returned"
    /\ result[c].Success
    /\ err[c] = ErrInternal
    /\ faultAt[c] = "close"

(* C9: the chain runs the DOM strategy first and the source strategy only  *)
(* after the DOM strategy returned nothing; when the DOM strategy returns  *)
(* a result, that result is the call's and the source strategy is not run. *)
C9_DomBeforeSource ==
  \A c \in Calls :
    /\ Len(chain[c]) <= 2
    /\ (chain[c] # <<>> => chain[c][1].strategy = "dom")
    /\ (Len(chain[c]) = 2
          => chain[c][2].strategy = "source" /\ ~chain[c][1].result.Success)
    /\ (chain[c] # <<>> /\ chain[c][1].result.Success
          => Len(chain[c]) = 1 /\ result[c] = chain[c][1].result)
    /\ (pc[c] = "source" => Len(chain[c]) = 1)

(* on a page where the source strategy would succeed too, with another     *)
(* URL, the call is returning the DOM strategy's result                    *)
C9_Witness ==
  \E c \in Calls :
    /\ pc[c] = "close"
    /\ ~panicking[c]
    /\ Len(chain[c]) = 1
    /\ result[c].Success
    /\ result[c].MediaURL = U_DomVideo
    /\ extractFromSourceCode(rendered[c], "video", TRUE).Success
    /\ extractFromSourceCode(rendered[c], "video", TRUE).MediaURL = U_HdPlain

(* C10: the classifier labels the rendered page before any strategy and    *)
(* every strategy receives that label, so that a page labelled image has   *)
(* the image branches run on it.                                           *)
C10_StrategiesReceiveLabel ==
  \A c \in Calls :
    pc[c] \in {"source", "close"}
      => \A i \in DOMAIN chain[c] :
           chain[c][i].pageType = analyzePageContent(rendered[c])

(* an image post ends with the no-media error although the DOM strategy's  *)
(* image branch would have returned its content image                      *)
C10_ImagePostFails ==
  \E c \in Calls :
    /\ pc[c] = "close"
    /\ rendered[c] = PageImage
    /\ analyzePageContent(rendered[c]) = "image"
    /\ Len(chain[c]) = 2
    /\ chain[c][1].pageType = "video" /\ chain[c][2].pageType = "video"
    /\ err[c] = ErrNoMedia
    /\ extractFromDOMElements(rendered[c], "image", Len(videoSelectors)).MediaURL = U_Image
    /\ extractFromDOMElements(rendered[c], "image", Len(videoSelectors)).MediaType = "image"

-----------------------------------------------------------------------------
(* The media predicates on sampled URLs *)

MediaHosts ==
  { <<"h","t","t","p","s",":","/","/","s","c","o","n","t","e","n","t",".","c","d","n","i","n","s","t","a","g","r","a","m",".","c","o","m">>,
    <<"h","t","t","p","s",":","/","/","v","i","d","e","o",".","f","b","c","d","n",".","n","e","t">>,
    <<"h","t","t","p","s",":","/","/","e","x","a","m","p","l","e",".","c","o","m">> }

T_1080 == <<"1","0","8","0","x","1","0","8","0">>
T_640 == <<"6","4","0","x","6","4","0">>

MediaDirs ==
  { <<"/">>,
    <<"/","p","1","0","8","0","x","1","0","8","0","/">>,
    <<"/","p","6","4","0","x","6","4","0","/">>,
    <<"/","p","7","2","0","x","7","2","0","/">>,
    <<"/","p","r","o","f","i","l","e","/","p","1","0","8","0","x","1","0","8","0","/">>,
    <<"/","p","1","0","8","0","x","1","0","8","0","/","f","u","l","l","_","r","e","s","/">>,
    <<"/","p","1","0","8","0","x","1","0","8","0","/","p","7","2","0","x","7","2","0","/">> }

MediaNames == { <<"a">>, <<"a",".","j","p","g">>, <<"c","l","i","p">> }

MediaSuffixes ==
  { <<>>, S_mp4, <<".","w","e","b","m">>, <<".","m","o","v">>, <<".","m","4","v">>,
    <<".","a","v","i">>, <<".","m","k","v">>, <<".","j","p","g">>, <<".","j","p","e","g">>,
    <<".","p","n","g">>, <<".","w","e","b","p">>, <<".","g","i","f">> }

URLOf(parts) == parts.host \o parts.dir \o parts.name \o parts.suffix

(* the same URL with 640x640 wherever it has 1080x1080 *)
TwinOf(url) == ReplaceAll(url, T_1080, T_640)

NormIdle ==
  /\ nParts = [scheme |-> <<>>, host |-> <<>>, path |-> <<>>, tail |-> <<>>]
  /\ nOut = NotRun
  /\ nAgain = NotRun
  /\ nTwin = NotRun

InitMedia ==
  /\ NormIdle
  /\ CallsIdle
  /\ mParts \in [host : MediaHosts, dir : MediaDirs, name : MediaNames, suffix : MediaSuffixes]
  /\ mVideo = <<>>
  /\ mImage = <<>>
  /\ mScore = <<>>
  /\ mTwinScore = <<>>
  /\ MetaIdle
  /\ StrategiesIdle
  /\ DownloadIdle

CheckVideo ==
  /\ mVideo = <<>>
  /\ mVideo' = <<isValidVideoURL(URLOf(mParts))>>
  /\ UNCHANGED <<normVars, callVars, metaVars, stratVars, downloadVars, mParts, mImage, mScore, mTwinScore>>

CheckImage ==
  /\ mImage = <<>>
  /\ mImage' = <<isValidImageURL(URLOf(mParts))>>
  /\ UNCHANGED <<normVars, callVars, metaVars, stratVars, downloadVars, mParts, mVideo, mScore, mTwinScore>>

ScoreURL ==
  /\ mScore = <<>>
  /\ mScore' = <<scoreImageURL(URLOf(mParts))>>
  /\ UNCHANGED <<normVars, callVars, metaVars, stratVars, downloadVars, mParts, mVideo, mImage, mTwinScore>>

(* scoreImageURL on the twin of a URL that holds the 1080x1080 token *)
ScoreTwin ==
  /\ mTwinScore = <<>>
  /\ Contains(URLOf(mParts), T_1080)
  /\ mTwinScore' = <<scoreImageURL(TwinOf(URLOf(mParts)))>>
  /\ UNCHANGED <<normVars, callVars, metaVars, stratVars, downloadVars, mParts, mVideo, mImage, mScore>>

NextMedia == CheckVideo \/ CheckImage \/ ScoreURL \/ ScoreTwin

SpecMedia == InitMedia /\ [][NextMedia]_vars

-----------------------------------------------------------------------------
(* Claims about the media predicates (checked under SpecMedia) *)

VideoFileSuffixes ==
  { S_mp4, <<".","w","e","b","m">>, <<".","m","o","v">>, <<".","m","4","v">>,
    <<".","a","v","i">>, <<".","m","k","v">> }

ImageFileSuffixes ==
  { <<".","j","p","g">>, <<".","j","p","e","g">>, <<".","p","n","g">>,
    <<".","w","e","b","p">>, <<".","g","i","f">> }

(* C11: isValidImageURL is false of every URL that ends in a video-file    *)
(* suffix (.mp4 .webm .mov .m4v .avi .mkv), and isValidVideoURL is false   *)
(* of every URL that ends in an image-file suffix (.jpg .jpeg .png .webp   *)
(* .gif).                                                                  *)
C11_SuffixesExclusive ==
  /\ (mImage # <<>> /\ mParts.suffix \in VideoFileSuffixes) => mImage[1] = FALSE
  /\ (mVideo # <<>> /\ mParts.suffix \in ImageFileSuffixes) => mVideo[1] = FALSE

(* a URL that ends in .mkv has passed the image predicate *)
C11_VideoSuffixPassesAsImage ==
  /\ mParts.suffix = <<".","m","k","v">>
  /\ mImage = <<TRUE>>
  /\ mVideo = <<FALSE>>

(* C12 as stated: of two URLs identical but for 1080x1080 in the one where *)
(* the other has 640x640, the first scores strictly higher.                *)
C12_ScoreMonotonic ==
  (mScore # <<>> /\ mTwinScore # <<>>) => mScore[1] > mTwinScore[1]

(* C12 amended: of two such URLs, the first scores strictly higher when    *)
(* the URL passes the image predicate; otherwise both score 0.             *)
C12_ScoreMonotonicWhenValid ==
  (mScore # <<>> /\ mTwinScore # <<>>)
    => IF isValidImageURL(URLOf(mParts))
       THEN mScore[1] > mTwinScore[1] /\ mTwinScore[1] >= BaseScore
       ELSE mScore[1] = 0 /\ mTwinScore[1] = 0

(* a valid candidate with 1080x1080 scored 100, its twin 70 *)
C12_Witness ==
  /\ mImage = <<TRUE>>
  /\ Contains(URLOf(mParts), T_1080)
  /\ mScore = <<100>>
  /\ mTwinScore = <<70>>

-----------------------------------------------------------------------------
(* extractVideoMetadata on sampled markup *)

TierKeys == {qualityFields[i].key : i \in DOMAIN qualityFields}

(* the forms a field is sampled in. id: bare digits, quoted digits,        *)
(* letters. title: plain, with the " | Facebook" tail, a single space.     *)
(* dur: 30999, 500, 30999 after twenty zeros, twenty nines, 30999 after a  *)
(* space, 30999 in quotes.                                                 *)
MetaShapes ==
  [id : {"absent", "plain", "quoted", "letters"},
   title : {"absent", "plain", "branded", "blank"},
   dur : {"absent", "ms", "short", "zeros", "huge", "spaced", "quoted"},
   tiers : SUBSET TierKeys]

IdField(shape) ==
  CASE shape = "plain" -> <<JsonField("video_id", FALSE, <<"1","2","3","4","5">>)>>
    [] shape = "quoted" -> <<JsonField("video_id", TRUE, <<"1","2","3","4","5">>)>>
    [] shape = "letters" -> <<JsonField("video_id", TRUE, <<"a","b","c">>)>>
    [] OTHER -> <<>>

TitleField(shape) ==
  LET tag(text) == <<[kind |-> "tag", key |-> "title", ws |-> FALSE, quoted |-> FALSE, val |-> text]>>
  IN  CASE shape = "plain" -> tag(<<"C","l","i","p">>)
        [] shape = "branded" -> tag(<<"C","l","i","p"," ","|"," ","F","a","c","e","b","o","o","k">>)
        [] shape = "blank" -> tag(<<" ">>)
        [] OTHER -> <<>>

DurField(shape) ==
  LET ms == <<"3","0","9","9","9">>
      zeros == <<"0","0","0","0","0","0","0","0","0","0","0","0","0","0","0","0","0","0","0","0">>
      nines == <<"9","9","9","9","9","9","9","9","9","9","9","9","9","9","9","9","9","9","9","9">>
      num(text) == JsonField("playable_duration_in_ms", FALSE, text)
  IN  CASE shape = "ms" -> <<num(ms)>>
        [] shape = "short" -> <<num(<<"5","0","0">>)>>
        [] shape = "zeros" -> <<num(zeros \o ms)>>
        [] shape = "huge" -> <<num(nines)>>
        [] shape = "spaced" -> <<[num(ms) EXCEPT !.ws = TRUE]>>
        [] shape = "quoted" -> <<JsonField("playable_duration_in_ms", TRUE, ms)>>
        [] OTHER -> <<>>

TierFields(keys) ==
  Flatten([i \in DOMAIN qualityFields |->
             IF qualityFields[i].key \in keys
             THEN <<JsonField(qualityFields[i].key, TRUE, U_HdEscaped)>>
             ELSE <<>>])

MetaMarkup(parts) ==
  TitleField(parts.title) \o IdField(parts.id) \o DurField(parts.dur) \o TierFields(parts.tiers)

InitMeta ==
  /\ NormIdle
  /\ CallsIdle
  /\ MediaIdle
  /\ StrategiesIdle
  /\ DownloadIdle
  /\ xParts \in MetaShapes
  /\ xOut = <<>>
  /\ xSolo = <<>>

ExtractMetadata ==
  /\ xOut = <<>>
  /\ xOut' = <<extractVideoMetadata(MetaMarkup(xParts))>>
  /\ UNCHANGED <<normVars, callVars, mediaVars, stratVars, downloadVars, xParts, xSolo>>

(* extractVideoMetadata on markup that holds the duration field alone *)
ExtractFromDurationAlone ==
  /\ xSolo = <<>>
  /\ xParts.dur # "absent"
  /\ xSolo' = <<extractVideoMetadata(DurField(xParts.dur))>>
  /\ UNCHANGED <<normVars, callVars, mediaVars, stratVars, downloadVars, xParts, xOut>>

NextMeta == ExtractMetadata \/ ExtractFromDurationAlone

SpecMeta == InitMeta /\ [][NextMeta]_vars

-----------------------------------------------------------------------------
(* Claims about extractVideoMetadata (checked under SpecMeta) *)

(* the sampled forms the pattern of main.go:694 matches *)
DurMatched == {"ms", "short", "zeros", "huge"}

(* id, title and quality tiers are set exactly when their own pattern      *)
(* matches; the duration field alone leaves every other field empty        *)
OtherFieldsIndependent ==
  /\ xOut # <<>> =>
       /\ ("video_id" \in DOMAIN xOut[1].Metadata) <=> (xParts.id \in {"plain", "quoted"})
       /\ (xOut[1].VideoID # <<>>) <=> (xParts.id \in {"plain", "quoted"})
       /\ ("title" \in DOMAIN xOut[1].Metadata) <=> (xParts.title # "absent")
       /\ \A i \in DOMAIN qualityFields :
            (qualityFields[i].label \in DOMAIN xOut[1].VideoUrls)
              <=> (qualityFields[i].key \in xParts.tiers)
  /\ xSolo # <<>> =>
       /\ xSolo[1].VideoID = <<>>
       /\ xSolo[1].Title = <<>>
       /\ xSolo[1].VideoUrls = NoMap
       /\ DOMAIN xSolo[1].Metadata \subseteq {"duration"}
  /\ (xOut # <<>> /\ xSolo # <<>>) =>
       /\ xOut[1].Duration = xSolo[1].Duration
       /\ ("duration" \in DOMAIN xOut[1].Metadata) <=> ("duration" \in DOMAIN xSolo[1].Metadata)

(* C13 as stated: every field of extractVideoMetadata (identifier, title,  *)
(* duration, each quality tier) is set if and only if its own pattern      *)
(* matches the markup, whatever the other fields; markup with the duration *)
(* field alone gives the duration and nothing else.                        *)
C13_FieldsIndependent ==
  /\ OtherFieldsIndependent
  /\ xOut # <<>> =>
       (("duration" \in DOMAIN xOut[1].Metadata) <=> (xParts.dur \in DurMatched))
  /\ xSolo # <<>> =>
       (("duration" \in DOMAIN xSolo[1].Metadata) <=> (xParts.dur \in DurMatched))

(* C13 amended: as stated, except that the duration is set if and only if  *)
(* its pattern matches and the matched digits are a number that fits a     *)
(* signed 64-bit integer.                                                  *)
C13_FieldsIndependentInRange ==
  /\ OtherFieldsIndependent
  /\ xOut # <<>> =>
       (("duration" \in DOMAIN xOut[1].Metadata) <=> (xParts.dur \in DurMatched \ {"huge"}))
  /\ xSolo # <<>> =>
       (("duration" \in DOMAIN xSolo[1].Metadata) <=> (xParts.dur \in DurMatched \ {"huge"}))

(* markup with a duration and one quality tier, no identifier, no title:   *)
(* 30 seconds and that tier from the full markup, 30 seconds and nothing   *)
(* else from the duration alone                                            *)
C13_Witness ==
  /\ xParts = [id |-> "absent", title |-> "absent", dur |-> "ms", tiers |-> {"hd_src"}]
  /\ xOut # <<>> /\ xSolo # <<>>
  /\ xOut[1].Duration = 30
  /\ DOMAIN xOut[1].VideoUrls = {"hd_src"}
  /\ xOut[1].VideoID = <<>>
  /\ xSolo[1].Duration = 30
  /\ DOMAIN xSolo[1].Metadata = {"duration"}

-----------------------------------------------------------------------------
(* The two strategies on sampled pages *)

U_Blob == <<"b","l","o","b",":","h","t","t","p","s",":","/","/","w","w","w",".","t","h","r","e","a","d","s",".","n","e","t","/","9","f","3","c">>
U_Current == <<"h","t","t","p","s",":","/","/","v","i","d","e","o",".","f","b","c","d","n",".","n","e","t","/","c","u","r",".","m","p","4">>
U_Nested == <<"h","t","t","p","s",":","/","/","v","i","d","e","o",".","f","b","c","d","n",".","n","e","t","/","n","e","s","t","e","d",".","m","p","4">>
U_Data == <<"h","t","t","p","s",":","/","/","v","i","d","e","o",".","f","b","c","d","n",".","n","e","t","/","d","a","t","a",".","m","p","4">>
U_Plain == <<"h","t","t","p","s",":","/","/","s","c","o","n","t","e","n","t",".","c","d","n","i","n","s","t","a","g","r","a","m",".","c","o","m","/","a",".","j","p","g">>
U_720 == <<"h","t","t","p","s",":","/","/","s","c","o","n","t","e","n","t",".","c","d","n","i","n","s","t","a","g","r","a","m",".","c","o","m","/","p","7","2","0","x","7","2","0","/","b",".","j","p","g">>
U_1080Other == <<"h","t","t","p","s",":","/","/","s","c","o","n","t","e","n","t",".","c","d","n","i","n","s","t","a","g","r","a","m",".","c","o","m","/","p","1","0","8","0","x","1","0","8","0","/","c",".","j","p","g">>
U_640Full == <<"h","t","t","p","s",":","/","/","s","c","o","n","t","e","n","t",".","c","d","n","i","n","s","t","a","g","r","a","m",".","c","o","m","/","p","6","4","0","x","6","4","0","/","f","u","l","l","_","r","e","s","/","d",".","j","p","g">>
U_TwoSizes == <<"h","t","t","p","s",":","/","/","s","c","o","n","t","e","n","t",".","c","d","n","i","n","s","t","a","g","r","a","m",".","c","o","m","/","p","1","0","8","0","x","1","0","8","0","/","7","2","0","x","7","2","0","/","e",".","j","p","g">>
U_Original == <<"h","t","t","p","s",":","/","/","s","c","o","n","t","e","n","t",".","c","d","n","i","n","s","t","a","g","r","a","m",".","c","o","m","/","o","r","i","g","i","n","a","l","/","f",".","j","p","g">>
U_Foreign == <<"h","t","t","p","s",":","/","/","e","x","a","m","p","l","e",".","c","o","m","/","p","1","0","8","0","x","1","0","8","0","/","x",".","j","p","g">>
U_ProfileLarge == <<"h","t","t","p","s",":","/","/","s","c","o","n","t","e","n","t",".","c","d","n","i","n","s","t","a","g","r","a","m",".","c","o","m","/","p","r","o","f","i","l","e","/","p","1","0","8","0","x","1","0","8","0","/","p",".","j","p","g">>
U_NotVideoEscaped == <<"h","t","t","p","s",":","\\","/","\\","/","e","x","a","m","p","l","e",".","c","o","m","\\","/","h","d">>

(* elements the video selectors match. A media element's currentSrc is the *)
(* source the browser chose: its src, else one of its nested sources.      *)
VideoPool ==
  { VideoElement(U_DomVideo),
    [tag |-> "video", attrs |-> ("src" :> U_Blob), sources |-> <<>>, currentSrc |-> U_Current],
    [tag |-> "video", attrs |-> ("autoplay" :> <<>>), sources |-> <<U_Blob, U_Nested>>,
     currentSrc |-> U_Nested],
    [tag |-> "video", attrs |-> ("src" :> U_Blob @@ "data-video-url" :> U_Data), sources |-> <<>>,
     currentSrc |-> U_Current],
    [tag |-> "div", attrs |-> ("data-video-url" :> U_Data), sources |-> <<>>, currentSrc |-> <<>>],
    [tag |-> "div", attrs |-> ("data-testid" :> <<"v","i","d","e","o","-","p","l","a","y","e","r">>),
     sources |-> <<>>, currentSrc |-> <<>>] }

ImagePool ==
  { ImgElement(u) : u \in {U_Image, U_Profile, U_ProfileLarge, U_Plain, U_720, U_1080Other,
                           U_640Full, U_TwoSizes, U_Original, U_Foreign} }

MaxElements == 2

(* the sequences over a pool of at most MaxElements elements *)
Runs(pool) == UNION {[1..n -> pool] : n \in 0..MaxElements}

(* the script state of a sampled page.                                      *)
(*   hd     the browser_native_hd_url field: an escaped video URL; a URL    *)
(*          the video predicate rejects; the rejected one followed by the   *)
(*          video URL                                                       *)
(*   dur    the playable_duration_in_ms field, in the forms of DurField     *)
(*   other  a video_url field or a display_url field                        *)
HdFields(shape) ==
  CASE shape = "escaped" -> <<JsonField("browser_native_hd_url", TRUE, U_HdEscaped)>>
    [] shape = "notvideo" -> <<JsonField("browser_native_hd_url", TRUE, U_NotVideoEscaped)>>
    [] shape = "second" -> <<JsonField("browser_native_hd_url", TRUE, U_NotVideoEscaped),
                             JsonField("browser_native_hd_url", TRUE, U_HdEscaped)>>
    [] OTHER -> <<>>

OtherFields(shape) ==
  CASE shape = "video_url" -> <<JsonField("video_url", TRUE, U_DomVideo)>>
    [] shape = "display_url" -> <<JsonField("display_url", TRUE, U_Image)>>
    [] OTHER -> <<>>

StrategyPages ==
  [els : Runs(VideoPool) \cup Runs(ImagePool), hd : {"absent"}, dur : {"absent"}, other : {"none"}]
  \cup [els : {<<>>} \cup {<<e>> : e \in VideoPool},
        hd : {"absent", "escaped", "notvideo", "second"},
        dur : {"absent", "ms", "short", "huge"},
        other : {"none", "video_url", "display_url"}]

PageOf(parts) ==
  [elements |-> parts.els,
   title |-> <<>>,
   script |-> OtherFields(parts.other) \o HdFields(parts.hd) \o DurField(parts.dur)]

InitStrategies ==
  /\ NormIdle
  /\ CallsIdle
  /\ MediaIdle
  /\ MetaIdle
  /\ DownloadIdle
  /\ sParts \in StrategyPages
  /\ sCall = <<>>
  /\ sOut = <<>>

(* extractFromDOMElements on the page; `answered` of the element queries    *)
(* are answered before the strategy's context expires (the video branch     *)
(* makes one query per selector, the image branch one in all)               *)
DOMStrategy ==
  /\ sCall = <<>>
  /\ \E pageType \in {"video", "image"} :
       \E answered \in 0..(IF pageType = "video" THEN Len(videoSelectors) ELSE 1) :
         /\ sCall' = <<[strategy |-> "dom", pageType |-> pageType, answered |-> answered,
                        htmlOk |-> TRUE]>>
         /\ sOut' = <<extractFromDOMElements(PageOf(sParts), pageType, answered)>>
  /\ UNCHANGED <<normVars, callVars, mediaVars, metaVars, downloadVars, sParts>>

(* extractFromSourceCode on the page; htmlOk: page.HTML() answered within   *)
(* its deadline                                                             *)
SourceStrategy ==
  /\ sCall = <<>>
  /\ \E pageType \in {"video", "image"} :
       \E htmlOk \in BOOLEAN :
         /\ sCall' = <<[strategy |-> "source", pageType |-> pageType, answered |-> 0,
                        htmlOk |-> htmlOk]>>
         /\ sOut' = <<extractFromSourceCode(PageOf(sParts), pageType, htmlOk)>>
  /\ UNCHANGED <<normVars, callVars, mediaVars, metaVars, downloadVars, sParts>>

NextStrategies == DOMStrategy \/ SourceStrategy

SpecStrategies == InitStrategies /\ [][NextStrategies]_vars

-----------------------------------------------------------------------------
(* Claims about the strategies (checked under SpecStrategies) *)

StrategyRan(name) == sCall # <<>> /\ sCall[1].strategy = name

(* no value that the video selectors reach passes the video predicate *)
NoDOMVideoCandidate ==
  \A i \in DOMAIN videoSelectors :
    \A el \in Range(Elements(PageOf(sParts), videoSelectors[i])) :
      \A v \in Range(ElementCandidates(el)) : ~isValidVideoURL(v)

(* the escaped URLs of the sampled script states, as they read decoded *)
U_NotVideoPlain == <<"h","t","t","p","s",":","/","/","e","x","a","m","p","l","e",".","c","o","m","/","h","d">>

Decoded(u) ==
  CASE u = U_HdEscaped -> U_HdPlain
    [] u = U_NotVideoEscaped -> U_NotVideoPlain
    [] OTHER -> u

(* the text of "key":"value" fields and of "key":digits fields in the markup *)
QuotedValues(key) ==
  LET hits == SelectSeq(PageOf(sParts).script,
                        LAMBDA f : f.kind = "json" /\ f.key = key /\ ~f.ws /\ f.quoted)
  IN  [i \in DOMAIN hits |-> hits[i].val]

NumberValues(key) ==
  LET hits == SelectSeq(PageOf(sParts).script,
                        LAMBDA f : f.kind = "json" /\ f.key = key /\ ~f.ws /\ ~f.quoted
                                   /\ f.val # <<>> /\ Range(f.val) \subseteq Digits)
  IN  [i \in DOMAIN hits |-> hits[i].val]

(* n integer-divided by 1000, for n written in decimal: the digits of n    *)
(* without the last three                                                  *)
WholeSeconds(digits) ==
  IF Len(digits) <= 3 THEN <<"0">> ELSE StripZeros(Take(digits, Len(digits) - 3))

HdAndDuration(u, n) ==
  /\ sOut[1].MediaType = "video"
  /\ Itoa(sOut[1].Duration) = WholeSeconds(n)
  /\ "browser_hd" \in DOMAIN sOut[1].VideoUrls
  /\ sOut[1].VideoUrls["browser_hd"] = Decoded(u)

(* C14: when no DOM video element yields a candidate and the markup holds  *)
(* "browser_native_hd_url":"U" with U passing the video predicate once     *)
(* unescaped, together with "playable_duration_in_ms":N, the source        *)
(* strategy returns a video result whose duration is N integer-divided by  *)
(* 1000 and whose quality map has "browser_hd" equal to U decoded.         *)
C14_HdAndDurationFromMarkup ==
  (StrategyRan("source") /\ NoDOMVideoCandidate)
    => \A u \in Range(QuotedValues("browser_native_hd_url")) :
         \A n \in Range(NumberValues("playable_duration_in_ms")) :
           isValidVideoURL(Decoded(u)) => HdAndDuration(u, n)

(* C14, amended: the same, when the markup was read, U is the value of the *)
(* first "browser_native_hd_url" field and N that of the first             *)
(* "playable_duration_in_ms" field, and N fits a signed 64-bit integer.    *)
C14_HdAndDurationFromFirstFields ==
  (StrategyRan("source") /\ NoDOMVideoCandidate /\ sCall[1].htmlOk
     /\ QuotedValues("browser_native_hd_url") # <<>>
     /\ NumberValues("playable_duration_in_ms") # <<>>)
    => LET u == QuotedValues("browser_native_hd_url")[1]
           n == NumberValues("playable_duration_in_ms")[1]
       IN  (isValidVideoURL(Decoded(u)) /\ FitsInt64(n)) => HdAndDuration(u, n)

(* the page of scenario D: 30999 ms read as 30 s, the HD URL decoded *)
C14_Witness ==
  /\ StrategyRan("source")
  /\ NoDOMVideoCandidate
  /\ sCall[1].htmlOk
  /\ sParts.hd = "escaped"
  /\ sParts.dur = "ms"
  /\ sParts.other = "none"
  /\ sOut[1].MediaType = "video"
  /\ sOut[1].MediaURL = U_HdPlain
  /\ sOut[1].Duration = 30
  /\ sOut[1].VideoUrls["browser_hd"] = U_HdPlain

(* the src of the page's img elements, in document order *)
ImgSrcs ==
  LET imgs == SelectSeq(PageOf(sParts).elements, LAMBDA el : el.tag = "img")
  IN  [i \in DOMAIN imgs |-> imgs[i].attrs["src"]]

FromTrustedCDN(url) ==
  Contains(url, S_cdninstagram) \/ Contains(url, S_fbcdn) \/ Contains(url, S_scontent)

IsProfileSrc(url) == FromTrustedCDN(url) /\ Contains(url, <<"p","r","o","f","i","l","e">>)

DOMRanFor(pageType) == StrategyRan("dom") /\ sCall[1].pageType = pageType

(* C15: an img src from the trusted CDN that contains "profile" fails the  *)
(* image predicate and is never the media URL the DOM strategy returns for *)
(* content type image; when every img of the page is such a one, the       *)
(* strategy returns no result.                                             *)
C15_ProfileNeverSelected ==
  DOMRanFor("image")
    => /\ \A u \in Range(ImgSrcs) :
            IsProfileSrc(u) => ~isValidImageURL(u) /\ sOut[1].MediaURL # u
       /\ (ImgSrcs # <<>> /\ \A u \in Range(ImgSrcs) : IsProfileSrc(u)) => sOut[1] = NoResult

(* a page whose only img is a 1080x1080 profile picture: no result *)
C15_Witness ==
  /\ DOMRanFor("image")
  /\ sCall[1].answered = 1
  /\ ImgSrcs = <<U_ProfileLarge>>
  /\ sOut[1] = NoResult

(* the values the claim lists for one element, in its order: src,          *)
(* data-video-url, the src of the nested sources, the current playback     *)
(* source                                                                  *)
Slots(el) ==
  <<Attribute(el, "src"), Attribute(el, "data-video-url")>> \o el.sources \o <<el.currentSrc>>

Matched(i) == Elements(PageOf(sParts), videoSelectors[i])

(* the places <<selector, element, slot>> of the first `reach` selectors   *)
(* whose value passes the video predicate                                  *)
PassingPlaces(reach) ==
  { p \in UNION { {<<i, j, k>> : k \in DOMAIN Slots(Matched(i)[j])} :
                  <<i, j>> \in UNION { {<<i, j>> : j \in DOMAIN Matched(i)} : i \in 1..reach } } :
      isValidVideoURL(Slots(Matched(p[1])[p[2]])[p[3]]) }

ScannedBefore(p, q) ==
  \/ p[1] < q[1]
  \/ p[1] = q[1] /\ p[2] < q[2]
  \/ p[1] = q[1] /\ p[2] = q[2] /\ p[3] < q[3]

(* the strategy returned the value of the first passing place among the    *)
(* first `reach` selectors, and no result when there is none               *)
ReturnsFirstPassing(reach) ==
  IF PassingPlaces(reach) = {} THEN sOut[1] = NoResult
  ELSE \E p \in PassingPlaces(reach) :
         /\ \A q \in PassingPlaces(reach) : q = p \/ ScannedBefore(p, q)
         /\ sOut[1] = MediaResult(Slots(Matched(p[1])[p[2]])[p[3]], "video")

StatedScore(url) ==
  50
  + (IF Contains(url, <<"1","0","8","0","x","1","0","8","0">>) THEN 50
     ELSE IF Contains(url, <<"7","2","0","x","7","2","0">>) THEN 30
     ELSE IF Contains(url, <<"6","4","0","x","6","4","0">>) THEN 20
     ELSE 0)
  + (IF Contains(url, <<"f","u","l","l","_","r","e","s">>)
        \/ Contains(url, <<"o","r","i","g","i","n","a","l">>) THEN 25
     ELSE 0)

ValidImgs == {i \in DOMAIN ImgSrcs : isValidImageURL(ImgSrcs[i])}

(* the first of the valid img srcs with the highest stated score *)
IsTopImg(i) ==
  /\ i \in ValidImgs
  /\ \A j \in ValidImgs :
       \/ StatedScore(ImgSrcs[j]) < StatedScore(ImgSrcs[i])
       \/ StatedScore(ImgSrcs[j]) = StatedScore(ImgSrcs[i]) /\ i <= j

ReturnsTopImgAboveFloor ==
  /\ \A i \in ValidImgs : scoreImageURL(ImgSrcs[i]) = StatedScore(ImgSrcs[i])
  /\ IF \E i \in ValidImgs : StatedScore(ImgSrcs[i]) > 50
     THEN \E i \in DOMAIN ImgSrcs : IsTopImg(i) /\ sOut[1] = MediaResult(ImgSrcs[i], "image")
     ELSE sOut[1] = NoResult

-----------------------------------------------------------------------------
(* handleDownload (main.go:1014-1079) *)

StatusMethodNotAllowed == 405
StatusInternalServerError == 500
StatusNotFound == 404

DownloadMethods == {"GET", "POST", "OPTIONS"}

(* hosts of the url parameter; the empty host stands for a request without *)
(* url parameter                                                           *)
DownloadHosts ==
  { <<"s","c","o","n","t","e","n","t",".","c","d","n","i","n","s","t","a","g","r","a","m",".","c","o","m">>,
    <<"v","i","d","e","o",".","f","b","c","d","n",".","n","e","t">>,
    <<"e","x","a","m","p","l","e",".","c","o","m">>,
    <<"1","6","9",".","2","5","4",".","1","6","9",".","2","5","4">>,
    <<"f","b","c","d","n",".","n","e","t",".","e","v","i","l",".","i","o">>,
    <<>> }

DownloadPaths ==
  { <<"/","x",".","m","p","4">>,
    <<"/","l","a","t","e","s","t","/","m","e","t","a","-","d","a","t","a","/">> }

DownloadFilenames == { <<>>, <<"c","l","i","p",".","m","p","4">> }

(* r.URL.Query().Get("url") *)
MediaURLOf(parts) ==
  IF parts.host = <<>> THEN <<>>
  ELSE <<"h","t","t","p","s",":","/","/">> \o parts.host \o parts.path

(* what the upstream server does with client.Get: the transport fails, or  *)
(* it answers with a status                                                *)
UpstreamOutcomes == {"failed", "ok", "missing"}

(* handleDownload's effect: the URL it fetched (none: <<>>), the status it *)
(* wrote, and whether it streamed the upstream body as an attachment       *)
Download(fetched, status, streamed, attachment) ==
  [fetched |-> fetched, status |-> status, streamed |-> streamed, attachment |-> attachment]

InitDownload ==
  /\ NormIdle
  /\ CallsIdle
  /\ MediaIdle
  /\ MetaIdle
  /\ StrategiesIdle
  /\ dParts \in [method : DownloadMethods, host : DownloadHosts, path : DownloadPaths,
                 filename : DownloadFilenames]
  /\ dOut = <<>>

(* main.go:1022-1030 *)
DownloadRefused ==
  /\ dOut = <<>>
  /\ dParts.method # "GET"
  /\ dOut' = <<Download(<<>>,
                        IF dParts.method = "OPTIONS" THEN StatusOK ELSE StatusMethodNotAllowed,
                        FALSE, <<>>)>>
  /\ UNCHANGED <<normVars, callVars, mediaVars, metaVars, stratVars, dParts>>

(* main.go:1032-1039 *)
DownloadWithoutURL ==
  /\ dOut = <<>>
  /\ dParts.method = "GET"
  /\ MediaURLOf(dParts) = <<>>
  /\ dOut' = <<Download(<<>>, StatusBadRequest, FALSE, <<>>)>>
  /\ UNCHANGED <<normVars, callVars, mediaVars, metaVars, stratVars, dParts>>

(* main.go:1041-1076: the handler fetches whatever URL it was given *)
DownloadFetch ==
  /\ dOut = <<>>
  /\ dParts.method = "GET"
  /\ MediaURLOf(dParts) # <<>>
  /\ \E upstream \in UpstreamOutcomes :
       dOut' = <<CASE upstream = "failed" ->
                        Download(MediaURLOf(dParts), StatusInternalServerError, FALSE, <<>>)
                   [] upstream = "missing" ->
                        Download(MediaURLOf(dParts), StatusNotFound, FALSE, <<>>)
                   [] OTHER ->
                        Download(MediaURLOf(dParts), StatusOK, TRUE, dParts.filename)>>
  /\ UNCHANGED <<normVars, callVars, mediaVars, metaVars, stratVars, dParts>>

NextDownload == DownloadRefused \/ DownloadWithoutURL \/ DownloadFetch

SpecDownload == InitDownload /\ [][NextDownload]_vars

-----------------------------------------------------------------------------
(* Claims about the download proxy (checked under SpecDownload) *)

TrustedMediaDomains ==
  { <<"c","d","n","i","n","s","t","a","g","r","a","m",".","c","o","m">>,
    <<"f","b","c","d","n",".","n","e","t">> }

HasSuffix(s, p) == Len(s) >= Len(p) /\ OccursAt(s, Len(s) - Len(p) + 1, p)

(* the host is a trusted media domain or one of its subdomains *)
IsTrustedMediaHost(host) ==
  \E d \in TrustedMediaDomains : host = d \/ HasSuffix(host, <<".">> \o d)

(* C17: handleDownload fetches the url parameter only when its host is a   *)
(* trusted media domain; for any other url it answers with an error and    *)
(* makes no outbound request.                                              *)
C17_FetchOnlyFromTrustedDomains ==
  dOut # <<>>
    => /\ dOut[1].fetched # <<>> => IsTrustedMediaHost(dParts.host)
       /\ (dParts.method = "GET" /\ ~IsTrustedMediaHost(dParts.host))
            => dOut[1].status >= StatusBadRequest /\ dOut[1].fetched = <<>>

(* the proxy fetched and streamed a URL of the link-local metadata host *)
C17_UntrustedHostFetched ==
  /\ dOut # <<>>
  /\ dParts.method = "GET"
  /\ ~IsTrustedMediaHost(dParts.host)
  /\ dOut[1].fetched = <<"h","t","t","p","s",":","/","/","1","6","9",".","2","5","4",".","1","6","9",".","2","5","4","/","l","a","t","e","s","t","/","m","e","t","a","-","d","a","t","a","/">>
  /\ dOut[1].status = StatusOK
  /\ dOut[1].streamed

-----------------------------------------------------------------------------
(* Claims about failures and deadlines inside a call (checked under Spec) *)

PastClose(c) == pc[c] \in {"recover", "returned", "responded"}

(* the call's last strategy decided what it returned *)
DecidedByStrategies(c) ==
  LET last == chain[c][Len(chain[c])]
  IN  IF last.result.Success
      THEN result[c] = last.result /\ err[c] = ""
      ELSE result[c] = NoResult /\ err[c] = ErrNoMedia

(* C18: a navigation failure is fatal: the call returns an error, no       *)
(* strategy has run and the page is closed. A failed page-load wait or     *)
(* element wait is not an error: the call goes on to the strategy chain,   *)
(* never returns the wait's error, and what it returns is decided by the   *)
(* strategies alone.                                                       *)
C18_NavigationFatalWaitsNot ==
  \A c \in Calls :
    /\ (PastClose(c) /\ err[c] = ErrNavigation) => chain[c] = <<>> /\ c \notin session
    /\ (Returned(c) /\ normalized[c] # <<>> /\ chain[c] = <<>>) => err[c] # ""
    /\ (err[c] \in {ErrLoadWait, ErrElementWait} /\ ~panicking[c])
         => pc[c] \in {"waitelements", "dom", "source"}
    /\ (Returned(c) /\ chain[c] # <<>> /\ faultAt[c] \notin FaultPoints) => DecidedByStrategies(c)

(* the navigation failed and the deferred close left the page open *)
C18_PageOpenAfterNavigationFailure ==
  \E c \in Calls :
    /\ pc[c] = "recover"
    /\ err[c] = ErrNavigation
    /\ chain[c] = <<>>
    /\ c \in session

(* C19: each phase of a call has a deadline of its own: whatever happened  *)
(* to the navigation and the load wait, the load wait and the element wait *)
(* start on a deadline that has not run out.                               *)
C19_PhasesHaveOwnDeadlines ==
  \A c \in Calls : pc[c] \in {"waitload", "waitelements"} => ctx[c] = "live"

(* the load wait timed out and the element wait starts on the deadline it  *)
(* used up                                                                 *)
C19_ElementWaitOnSpentDeadline ==
  \E c \in Calls :
    /\ pc[c] = "waitelements"
    /\ err[c] = ErrLoadWait
    /\ ctx[c] = "expired"

-----------------------------------------------------------------------------
(* The two media predicates on one URL (checked under SpecMedia) *)

BothPredicatesRan == mVideo # <<>> /\ mImage # <<>>

(* what an image branch accepts: main.go:545 and the image loop of         *)
(* extractFromSourceCode test isValidImageURL(url) && !isValidVideoURL(url) *)
ImageBranchAccepts == mImage[1] /\ ~mVideo[1]

(* C21: isValidVideoURL and isValidImageURL are never both true of a URL,  *)
(* whatever its suffix, so the image branches accept exactly the URLs      *)
(* isValidImageURL accepts.                                                *)
C21_PredicatesNeverBothTrue ==
  BothPredicatesRan
    => /\ ~(mVideo[1] /\ mImage[1])
       /\ ImageBranchAccepts = mImage[1]

(* a .jpg on the CDN host that the video predicate accepts by name alone:  *)
(* the image predicate holds and the video predicate does not              *)
C21_Witness ==
  /\ BothPredicatesRan
  /\ Contains(URLOf(mParts), S_cdninstagram)
  /\ mParts.name = <<"a">>
  /\ mParts.suffix = <<".","j","p","g">>
  /\ mImage = <<TRUE>>
  /\ mVideo = <<FALSE>>

=============================================================================
